---- MODULE Spec2Model ----
(***************************************************************************)
(* The per-domain job / locking core of the QEMU driver                    *)
(* (src/qemu/qemu_driver.c): one domain object, a number of threads that   *)
(* run driver entry points against it, and the hypervisor process.         *)
(*                                                                         *)
(* The entry points are translated from qemu_driver.c.  The job            *)
(* controller, the channel guards, the registry and the process driver     *)
(* (qemu_domain.c, qemu_process.c, domain_conf.c) are not part of the      *)
(* sources and are modelled from the design description (spec.md 4.1-4.4). *)
(***************************************************************************)
EXTENDS Integers, FiniteSets, Sequences, TLC

\* ------------------------------------------------------------------ bounds
\* the number of threads; each runs one entry point
NThreads == 2

Threads == 1..NThreads
NoThread == 0

\* ------------------------------------------------------------- vocabulary
SyncKinds == {"query", "destroy", "suspend", "modify", "abort", "migration_op"}
AsyncKinds == {"migration_out", "migration_in", "save", "dump", "snapshot"}

\* DEFAULT_JOB_MASK, used by name at qemu_driver.c:13295 and :13329; its
\* value lives in qemu_domain.h
DEFAULT_JOB_MASK == {"query", "destroy", "abort"}

VARIABLES
    vm,      \* the domain object (virDomainObj and its private data)
    job,     \* priv->job, the embedded job controller
    lock,    \* holder of the domain object's mutex, or NoThread
    pc,      \* pc[t]: where thread t is in the entry point it runs
    op,      \* op[t]: the entry point thread t runs
    loc,     \* loc[t]: the entry point's local variables and arguments
    held,    \* held.sync / held.async: threads between a successful begin
             \* of a job and their own end of it
    entry,   \* entry[t]: history, the domain as the entry point of thread t
             \* would have left it had it done nothing, kept while the
             \* thread has not held a job
    log      \* what a registered listener of the driver's event queue has
             \* seen, with the calls made and their results

vars == <<vm, job, lock, pc, op, loc, held, entry, log>>

\* ------------------------------------------------------------- job state
JobInit ==
    [active |-> "none", owner |-> NoThread,
     asyncJob |-> "none", asyncOwner |-> NoThread, mask |-> {},
     asyncAbort |-> FALSE, dump_memory_only |-> FALSE, timeElapsed |-> 0]

\* begin_job's predicate (spec.md 4.3): the sync slot is free and a present
\* async job permits the kind
\* a variant of the job controller that ignores the mask of the async job
CanBeginJobAnyKind(kind) == job.active = "none"

CanBeginJob(kind) ==
    /\ job.active = "none"
    /\ (job.asyncJob = "none" \/ kind \in job.mask)

\* begin_async_job's predicate: same discipline, an async kind is in no mask
CanBeginAsyncJob ==
    /\ job.active = "none"
    /\ job.asyncJob = "none"

\* a variant in which the slot does not record its owner
JobTakenUnowned(t, kind) == [job EXCEPT !.active = kind]

\* the slot taken by thread t
JobTaken(t, kind) == [job EXCEPT !.active = kind, !.owner = t]

AsyncJobTaken(t, kind) ==
    [job EXCEPT !.asyncJob = kind, !.asyncOwner = t, !.mask = DEFAULT_JOB_MASK,
                !.asyncAbort = FALSE, !.dump_memory_only = FALSE,
                !.timeElapsed = 0]

\* end_job / end_async_job clear the slot
JobEnded == [job EXCEPT !.active = "none", !.owner = NoThread]

AsyncJobEnded ==
    [job EXCEPT !.asyncJob = "none", !.asyncOwner = NoThread, !.mask = {},
                !.asyncAbort = FALSE, !.dump_memory_only = FALSE,
                !.timeElapsed = 0]

HoldsSync(t) == t \in held.sync
HoldsAsync(t) == t \in held.async
HoldsJob(t) == HoldsSync(t) \/ HoldsAsync(t)

\* ------------------------------------------------------------ the domain
\* virDomainObjIsActive: def->id != -1
IsActive == vm.active

\* qemuProcessStop: the process is gone, the domain is shutoff
ProcessStopped(v, why) ==
    [v EXCEPT !.active = FALSE, !.state = "shutoff", !.reason = why,
              !.procAlive = FALSE]

\* history: the thread whose operation stopped the domain while it was
\* transient
StoppedBy(v, t) ==
    [v EXCEPT !.stopper = IF v.persistent THEN NoThread ELSE t]

\* virDomainObjSetState
StateSet(v, st, why) == [v EXCEPT !.state = st, !.reason = why]

\* a reference taken / dropped on the domain object
Ref(v) == [v EXCEPT !.refs = @ + 1]
Unref(v) == [v EXCEPT !.refs = @ - 1]

\* virDomainObjAssignDef: the object gets a new definition
AssignDef(v) == [v EXCEPT !.def = 1 - @]

\* qemuProcessStart: a new hypervisor process runs the domain
ProcessStarted(v, st, why) ==
    [v EXCEPT !.active = TRUE, !.procAlive = TRUE, !.state = st,
              !.reason = why, !.stopper = NoThread]

\* qemuDomainRemoveInactive: out of the registry, the registry's reference
\* dropped; virDomainObjListRemove leaves the object unlocked
Removed(v) == [v EXCEPT !.registered = FALSE, !.refs = @ - 1]

\* --------------------------------------------------------- thread locals
LocInit ==
    [ret |-> -1, err |-> "none", vmp |-> FALSE,
     was_running |-> FALSE, memory |-> FALSE, useAgent |-> FALSE,
     acpi |-> FALSE, resume |-> FALSE, paused |-> FALSE, offline |-> FALSE,
     action |-> "none", event |-> <<>>, flags |-> {}, activeFail |-> FALSE,
     src |-> -1, was_stopped |-> FALSE, before |-> "none", queued |-> <<>>,
     added |-> FALSE, cached |-> FALSE]

Set(t, f, x) == [loc EXCEPT ![t][f] = x]

Goto(t, label) == pc' = [pc EXCEPT ![t] = label]

\* the state, markers, process and snapshot metadata of the domain
Observed(v) ==
    [state |-> v.state, reason |-> v.reason, active |-> v.active,
     procAlive |-> v.procAlive, beingDestroyed |-> v.beingDestroyed,
     current_snapshot |-> v.current_snapshot]

NoEntry == [state |-> "none"]

\* the event queue delivers to registered listeners; without one the
\* events are dropped
LogInit(listening) ==
    [on |-> listening, calls |-> <<>>, rets |-> <<>>, events |-> <<>>]

\* ------------------------------------------------------------------ Init
\* One registered domain: inactive (then persistent) or running or paused,
\* no job outstanding, unlocked; every thread idle.
VmInit(act, st, pers, snap) ==
    [registered |-> TRUE, refs |-> 1, active |-> act, state |-> st,
     reason |-> IF act THEN "booted" ELSE "unknown",
     procAlive |-> act, persistent |-> pers, hasManagedSave |-> FALSE,
     current_snapshot |-> snap, def |-> 0, beingDestroyed |-> FALSE,
     stale |-> {}, stopper |-> NoThread]

Init ==
    /\ \E st \in {"shutoff", "running", "paused", "pmsuspended"}, pers \in BOOLEAN,
          snap \in {TRUE} :
          /\ st = "shutoff" => pers
          /\ vm = VmInit(st # "shutoff", st, pers, snap)
    /\ job = JobInit
    /\ lock = NoThread
    /\ pc = [t \in Threads |-> "idle"]
    /\ op = [t \in Threads |-> "none"]
    /\ loc = [t \in Threads |-> LocInit]
    /\ held = [sync |-> {}, async |-> {}, late |-> {}, blocked |-> {},
               gone |-> {}]
    /\ entry = [t \in Threads |-> NoEntry]
    /\ log = LogInit(FALSE)

\* --------------------------------------------------------- entry points
SaveOps == {"save", "managedsave"}
DeviceOps == {"attach", "detach"}
MigrateOps == {"migrate_perform", "migrate_finish2", "migrate_begin3"}
JobQueryOps == {"getjobinfo", "getjobstats"}
ApiOps ==
    {"suspend", "resume", "destroy", "dump", "snapshot", "undefine", "revert",
     "opengraphics", "shutdown", "abortjob", "blockinfo"}
        \cup SaveOps \cup DeviceOps \cup MigrateOps \cup JobQueryOps

\* the entry points that add a domain to the registry and start it
CreateOps == {"create", "qemuattach", "restore"}

\* the events qemuProcessEventHandler dispatches
EventOps == {"watchdog", "panic", "devdeleted"}

\* the flag combinations a caller of save may pass
SaveFlags == {{}, {"running"}, {"paused"}}

\* the async job an entry point begins
AsyncOf(o) ==
    CASE o \in SaveOps -> "save"
      [] o = "snapshot" -> "snapshot"
      [] OTHER -> "dump"

\* the job an entry point begins
JobOf(o) ==
    CASE o = "suspend" -> "suspend"
      [] o = "destroy" -> "destroy"
      [] o = "abortjob" -> "abort"
      [] o \in {"blockinfo", "getinfo", "getxmldesc"} -> "query"
      [] OTHER -> "modify"

\* where an entry point continues after its permission check
AfterAcl(o) ==
    CASE o \in {"suspend", "snapshot", "undefine", "revert", "opengraphics",
                "shutdown", "blockinfo", "snapshot_internal",
                "blockjobabort", "getinfo", "getxmldesc"} -> "pre"
      [] o = "destroy" -> "kill"
      [] o \in SaveOps -> "pre"
      [] o \in MigrateOps -> "migration"
      [] o \in JobQueryOps -> "jobinfo"
      [] o = "dump" -> "abegin"
      [] OTHER -> "begin"

\* where an entry point goes when its permission check fails
\* (qemuDomainMigratePerform and qemuDomainMigrateFinish2 return from
\* their cleanup label, which does not unlock the object)
AclFailPc(o) ==
    IF o \in {"migrate_perform", "migrate_finish2"} THEN "done" ELSE "cleanup"

\* a variant in which a failed qemuDomainObjBeginJob still leaves through
\* the endjob label
BeginFailPcEndjob(o) == "endjob"

\* a variant in which a failed qemuDomainObjBeginAsyncJob still ends the
\* async job
AsyncBeginFailPcEndjob(o) == "aendjob"

\* where an entry point goes when qemuDomainObjBeginJob fails
BeginFailPc(o) ==
    CASE o = "revert" -> "rev_tail"
      [] o \in {"create", "qemuattach"} -> "cr_remove"
      [] o \in EventOps -> "ev_end"
      [] o = "blockinfo" -> "bi_cleanup"
      [] o = "snapshot_internal" -> "snap_tail"
      [] OTHER -> "cleanup"

\* what follows the endjob label
AfterEndJob(o) ==
    CASE o = "revert" -> "rev_tail"
      [] o = "restore" -> "restore_end"
      [] o \in EventOps -> "ev_end"
      [] o = "blockinfo" -> "bi_cleanup"
      [] OTHER -> "cleanup"

\* where an entry point goes when qemuDomainObjBeginAsyncJob fails
AsyncBeginFailPc(o) ==
    CASE o \in EventOps -> "ev_end"
      [] o = "snapshot" -> "snap_tail"
      [] OTHER -> "cleanup"

\* what follows the final unlock
AfterCleanup(o) ==
    CASE o = "managedsave" -> "ms_flag"
      [] OTHER -> "done"

\* a client calls an entry point on thread t (threads are interchangeable:
\* they are put to use in the order of their numbers); qemuDomObjFromDomain
\* returns the object locked, or nothing
Call(t) ==
    /\ pc[t] = "idle"
    /\ \A u \in Threads : u < t => pc[u] # "idle"
    /\ \E o \in ApiOps : op' = [op EXCEPT ![t] = o]
    /\ IF vm.registered
       THEN /\ lock = NoThread
            /\ lock' = t
            /\ loc' = Set(t, "vmp", TRUE)
            /\ Goto(t, "acl")
       ELSE /\ loc' = Set(t, "err", "NotFound")
            /\ Goto(t, "done")
            /\ UNCHANGED lock
    /\ UNCHANGED <<vm, job, held>>

\* history kept for the properties: who holds which job, whose job began
\* on an inactive domain (late), whose qemuDomainObjBeginAsyncJob found
\* another async job outstanding (blocked), who was told by end_job or
\* end_async_job that the object is gone (gone)
Began(t, slot) ==
    [held EXCEPT ![slot] = @ \cup {t},
                 !.late = IF IsActive THEN @ ELSE @ \cup {t}]

\* vir...EnsureACL
Acl(t) ==
    /\ pc[t] = "acl"
    /\ lock = t
    /\ \E ok \in BOOLEAN :
          IF ok THEN /\ Goto(t, AfterAcl(op[t]))
                     /\ UNCHANGED loc
                ELSE /\ Goto(t, AclFailPc(op[t]))
                     /\ loc' = Set(t, "err", "AccessDenied")
    /\ UNCHANGED <<vm, job, lock, op, held>>

\* qemuDomainObjBeginJob, called with the object locked: takes a reference,
\* takes the slot when free, otherwise waits with the lock released
BeginJob(t) ==
    /\ pc[t] = "begin"
    /\ lock = t
    /\ vm' = Ref(vm)
    /\ IF CanBeginJob(JobOf(op[t]))
       THEN /\ job' = JobTaken(t, JobOf(op[t]))
            /\ held' = Began(t, "sync")
            /\ Goto(t, "held")
            /\ UNCHANGED lock
       ELSE /\ lock' = NoThread
            /\ Goto(t, "wait")
            /\ UNCHANGED <<job, held>>
    /\ UNCHANGED <<op, loc>>

\* the waiter is woken, re-takes the lock and re-checks the predicate
WaitJobAcquire(t) ==
    /\ pc[t] = "wait"
    /\ lock = NoThread
    /\ CanBeginJob(JobOf(op[t]))
    /\ lock' = t
    /\ job' = JobTaken(t, JobOf(op[t]))
    /\ held' = Began(t, "sync")
    /\ Goto(t, "held")
    /\ UNCHANGED <<vm, op, loc>>

\* a variant in which the wait for the slot has no time limit
WaitUnbounded(kind) == FALSE

\* begin_job waits with a time limit, whatever the kind (spec.md 4.3)
WaitBounded(kind) == TRUE

\* the bounded wait expires: TimeOut, the reference is dropped again
WaitJobTimeout(t) ==
    /\ pc[t] = "wait"
    /\ WaitBounded(JobOf(op[t]))
    /\ lock = NoThread
    /\ lock' = t
    /\ vm' = Unref(vm)
    /\ loc' = Set(t, "err", "TimeOut")
    /\ Goto(t, BeginFailPc(op[t]))
    /\ UNCHANGED <<job, op, held>>

\* endjob: if (!qemuDomainObjEndJob(driver, vm)) vm = NULL;
\* end_job clears the slot, drops the reference and tells whether the
\* object is still referenced
EndJob(t) ==
    /\ pc[t] = "endjob"
    /\ job' = JobEnded
    /\ held' = [held EXCEPT !.sync = @ \ {t},
                            !.gone = IF vm.refs > 1 THEN @ ELSE @ \cup {t}]
    /\ vm' = Unref(vm)
    /\ IF vm.refs > 1
       THEN UNCHANGED <<loc, lock>>
       ELSE /\ loc' = Set(t, "vmp", FALSE)
            /\ lock' = NoThread
    /\ Goto(t, AfterEndJob(op[t]))
    /\ UNCHANGED <<op>>

\* qemuDomainObjBeginAsyncJob: as BeginJob, for the async slot; the mask of
\* the new async job is DEFAULT_JOB_MASK
BeginAsyncJob(t) ==
    /\ pc[t] = "abegin"
    /\ lock = t
    /\ vm' = Ref(vm)
    /\ IF CanBeginAsyncJob
       THEN /\ job' = AsyncJobTaken(t, AsyncOf(op[t]))
            /\ held' = Began(t, "async")
            /\ Goto(t, "aheld")
            /\ UNCHANGED lock
       ELSE /\ lock' = NoThread
            /\ Goto(t, "await")
            /\ held' = [held EXCEPT !.blocked =
                           IF job.asyncJob # "none" THEN @ \cup {t} ELSE @]
            /\ UNCHANGED job
    /\ UNCHANGED <<op, loc>>

WaitAsyncAcquire(t) ==
    /\ pc[t] = "await"
    /\ lock = NoThread
    /\ CanBeginAsyncJob
    /\ lock' = t
    /\ job' = AsyncJobTaken(t, AsyncOf(op[t]))
    /\ held' = Began(t, "async")
    /\ Goto(t, "aheld")
    /\ UNCHANGED <<vm, op, loc>>

WaitAsyncTimeout(t) ==
    /\ pc[t] = "await"
    /\ lock = NoThread
    /\ lock' = t
    /\ vm' = Unref(vm)
    /\ loc' = Set(t, "err", "TimeOut")
    /\ Goto(t, AsyncBeginFailPc(op[t]))
    /\ UNCHANGED <<job, op, held>>

\* if (qemuDomainObjEndAsyncJob(driver, vm) == 0) vm = NULL;
EndAsyncJob(t) ==
    /\ pc[t] = "aendjob"
    /\ job' = AsyncJobEnded
    /\ held' = [held EXCEPT !.async = @ \ {t},
                            !.gone = IF vm.refs > 1 THEN @ ELSE @ \cup {t}]
    /\ vm' = Unref(vm)
    /\ IF vm.refs > 1
       THEN UNCHANGED <<loc, lock>>
       ELSE /\ loc' = Set(t, "vmp", FALSE)
            /\ lock' = NoThread
    /\ Goto(t, "cleanup")
    /\ UNCHANGED op

\* cleanup: if (vm) virObjectUnlock(vm); ... return ret;
Cleanup(t) ==
    /\ pc[t] = "cleanup"
    /\ IF loc[t].vmp
       THEN lock' = NoThread
       ELSE UNCHANGED lock
    /\ Goto(t, IF loc[t].event # <<>> THEN "ev_queue" ELSE AfterCleanup(op[t]))
    /\ UNCHANGED <<vm, job, op, loc, held>>

\* if (event) qemuDomainEventQueue(driver, event); (and event2)
EventQueue(t) ==
    /\ pc[t] = "ev_queue"
    /\ loc' = Set(t, "event", <<>>)
    /\ Goto(t, AfterCleanup(op[t]))
    /\ UNCHANGED <<vm, job, lock, op, held>>

\* the entry point has returned; its thread ends
Return(t) ==
    /\ pc[t] = "done"
    /\ Goto(t, "gone")
    /\ op' = [op EXCEPT ![t] = "none"]
    /\ loc' = [loc EXCEPT ![t] = LocInit]
    /\ held' = [held EXCEPT !.late = @ \ {t}, !.blocked = @ \ {t},
                            !.gone = @ \ {t}]
    /\ vm' = [vm EXCEPT !.stale = @ \ {t},
                        !.stopper = IF @ = t THEN NoThread ELSE @]
    /\ UNCHANGED <<job, lock>>

\* ------------------------------------------------------ qemuDomainSuspend
SuspendPre(t) ==
    /\ pc[t] = "pre" /\ op[t] = "suspend"
    /\ lock = t
    /\ IF IsActive
       THEN /\ Goto(t, "begin")
            /\ UNCHANGED loc
       ELSE /\ Goto(t, "cleanup")
            /\ loc' = Set(t, "err", "OperationInvalid")
    /\ UNCHANGED <<vm, job, lock, op, held>>

\* ------------------------------------------------------- channel guards
\* qemuDomainObjEnterMonitor / qemuDomainObjEnterAgent: a reference is
\* taken and the object lock released for the round trip
Entered(v) == Ref(v)

\* qemuDomainObjExitMonitor / qemuDomainObjExitAgent: the lock is taken
\* again and the reference dropped
Exited(v, t) ==
    [Unref(v) EXCEPT !.stale = IF v.active THEN @ ELSE @ \cup {t}]

\* a variant in which a command sent to a dead process is never answered
RepliesWhileAlive == IF vm.procAlive THEN {0, -1} ELSE {}

\* what a command on the channel can answer: a dead process answers nothing
Replies == IF vm.procAlive THEN {0, -1} ELSE {-1}

\* virDomainSaveStatus / virDomainSaveConfig can fail
IoResults == {0, -1}

\* ------------------------------------------------------ qemuDomainSuspend
\* the pause reason the request applies (qemu_driver.c:1703-1712)
SuspendReason ==
    CASE job.asyncJob = "migration_out" -> "migration"
      [] job.asyncJob = "snapshot" -> "snapshot"
      [] OTHER -> "user"

\* the lifecycle event of a suspend (eventDetail; none for a snapshot)
SuspendedEvent(reason) ==
    CASE reason = "snapshot" -> <<>>
      [] reason = "migration" -> << <<"suspended", "migrated">> >>
      [] OTHER -> << <<"suspended", "paused">> >>

\* a variant in which a paused guest is stopped again
AlreadyPausedNever(st) == FALSE

\* } else if (state != VIR_DOMAIN_PAUSED) { qemuProcessStopCPUs ...
AlreadyPaused(st) == st = "paused"

SuspendHeld(t) ==
    /\ pc[t] = "held" /\ op[t] = "suspend"
    /\ IF ~IsActive
       THEN /\ loc' = Set(t, "err", "OperationInvalid")
            /\ Goto(t, "endjob")
            /\ UNCHANGED <<vm, lock>>
       ELSE IF vm.state = "pmsuspended"
       THEN /\ loc' = Set(t, "err", "OperationInvalid")
            /\ Goto(t, "endjob")
            /\ UNCHANGED <<vm, lock>>
       ELSE IF ~AlreadyPaused(vm.state)
       THEN \* qemuProcessStopCPUs(..., QEMU_ASYNC_JOB_NONE) enters the monitor
            /\ vm' = Entered(vm)
            /\ lock' = NoThread
            /\ Goto(t, "susp_mon")
            /\ UNCHANGED loc
       ELSE \E io \in IoResults :
            /\ loc' = Set(t, "ret", io)
            /\ Goto(t, "endjob")
            /\ UNCHANGED <<vm, lock>>
    /\ UNCHANGED <<job, op, held>>

\* the stop command has been answered; the suspended event is made
\* unless the guest was paused for a snapshot (eventDetail = -1)
SuspendMon(t) ==
    /\ pc[t] = "susp_mon"
    /\ lock = NoThread
    /\ lock' = t
    /\ \E rc \in Replies, io \in IoResults :
          IF rc = 0
          THEN /\ vm' = StateSet(Exited(vm, t), "paused", SuspendReason)
               /\ loc' = [loc EXCEPT ![t].ret = io,
                                     ![t].event = SuspendedEvent(SuspendReason)]
          ELSE /\ vm' = Exited(vm, t)
               /\ UNCHANGED loc
    /\ Goto(t, "endjob")
    /\ UNCHANGED <<job, op, held>>

\* ------------------------------------------------------- qemuDomainResume
\* with the modify job: a paused guest is resumed through the monitor
ResumeHeld(t) ==
    /\ pc[t] = "held" /\ op[t] = "resume"
    /\ IF ~IsActive \/ vm.state = "pmsuspended"
       THEN /\ loc' = Set(t, "err", "OperationInvalid")
            /\ Goto(t, "endjob")
            /\ UNCHANGED <<vm, lock>>
       ELSE IF vm.state = "paused"
       THEN /\ vm' = Entered(vm)
            /\ lock' = NoThread
            /\ Goto(t, "resume_mon")
            /\ UNCHANGED loc
       ELSE \E io \in IoResults :
            /\ loc' = Set(t, "ret", io)
            /\ Goto(t, "endjob")
            /\ UNCHANGED <<vm, lock>>
    /\ UNCHANGED <<job, op, held>>

\* qemuProcessStartCPUs(..., VIR_DOMAIN_RUNNING_UNPAUSED, ...) has been
\* answered; the resumed event is made, the status saved
ResumeMon(t) ==
    /\ pc[t] = "resume_mon"
    /\ lock = NoThread
    /\ lock' = t
    /\ \E rc \in Replies, io \in IoResults :
          IF rc = 0
          THEN /\ vm' = StateSet(Exited(vm, t), "running", "unpaused")
               /\ loc' = [loc EXCEPT ![t].ret = io,
                             ![t].event = << <<"resumed", "unpaused">> >>]
          ELSE /\ vm' = Exited(vm, t)
               /\ loc' = Set(t, "err", "OperationFailed")
    /\ Goto(t, "endjob")
    /\ UNCHANGED <<job, op, held>>

\* ------------------------------------------------- qemuDomainDestroyFlags
\* beingDestroyed is set, then qemuProcessKill (either flag) runs with the
\* object unlocked; an inactive domain is not signalled
DestroyKill(t) ==
    /\ pc[t] = "kill" /\ op[t] = "destroy"
    /\ vm' = [vm EXCEPT !.beingDestroyed = TRUE]
    /\ IF IsActive
       THEN /\ lock' = NoThread
            /\ Goto(t, "killing")
       ELSE /\ Goto(t, "begin")
            /\ UNCHANGED lock
    /\ UNCHANGED <<job, op, loc, held>>

DestroyKilling(t) ==
    /\ pc[t] = "killing" /\ op[t] = "destroy"
    /\ lock = NoThread
    /\ lock' = t
    /\ \E killed \in BOOLEAN :
          IF killed
          THEN /\ vm' = [vm EXCEPT !.procAlive = FALSE]
               /\ Goto(t, "begin")
          ELSE /\ vm' = [vm EXCEPT !.beingDestroyed = FALSE]
               /\ Goto(t, "cleanup")
    /\ UNCHANGED <<job, op, loc, held>>

DestroyHeld(t) ==
    /\ pc[t] = "held" /\ op[t] = "destroy"
    /\ IF ~IsActive
       THEN /\ vm' = [vm EXCEPT !.beingDestroyed = FALSE]
            /\ loc' = Set(t, "err", "OperationInvalid")
            /\ Goto(t, "endjob")
            /\ UNCHANGED <<job, lock, held>>
       ELSE IF vm.persistent
       THEN /\ vm' = ProcessStopped([vm EXCEPT !.beingDestroyed = FALSE],
                                    "destroyed")
            /\ loc' = [loc EXCEPT ![t].ret = 0,
                          ![t].event = << <<"stopped", "destroyed">> >>]
            /\ Goto(t, "endjob")
            /\ UNCHANGED <<job, lock, held>>
       ELSE \* if (qemuDomainObjEndJob(driver, vm))
            \*     qemuDomainRemoveInactive(driver, vm);
            \* vm = NULL;
            /\ job' = JobEnded
            /\ held' = [held EXCEPT !.sync = @ \ {t}]
            /\ vm' = LET v == Unref(StoppedBy(ProcessStopped(
                                  [vm EXCEPT !.beingDestroyed = FALSE],
                                  "destroyed"), t))
                     IN IF v.refs > 0 THEN Removed(v) ELSE v
            /\ lock' = NoThread
            /\ loc' = [loc EXCEPT ![t].vmp = FALSE, ![t].ret = 0,
                          ![t].event = << <<"stopped", "destroyed">> >>]
            /\ Goto(t, "cleanup")
    /\ UNCHANGED <<op>>

\* qemuDomainObjEnterMonitorAsync returns 0 only for a domain that is
\* still active (spec.md 4.4: the next enter observes the inactive state)
EnterAsyncOK == IsActive

\* --------- qemuDomainSaveFlags / qemuDomainManagedSave, SaveInternal
\* the checks before the async job: active, persistent (managed save),
\* capabilities and migratability
SavePre(t) ==
    /\ pc[t] = "pre" /\ op[t] \in SaveOps
    /\ lock = t
    /\ \E allowed \in BOOLEAN :
          IF ~IsActive \/ (op[t] = "managedsave" /\ ~vm.persistent)
          THEN /\ loc' = Set(t, "err", "OperationInvalid")
               /\ Goto(t, "cleanup")
          ELSE IF ~allowed
          THEN /\ loc' = Set(t, "err", "OperationFailed")
               /\ Goto(t, "cleanup")
          ELSE /\ Goto(t, "abegin")
               /\ UNCHANGED loc
    /\ UNCHANGED <<vm, job, lock, op, held>>

\* after qemuDomainObjBeginAsyncJob: pause a running guest
SaveHeld(t) ==
    /\ pc[t] = "aheld" /\ op[t] \in SaveOps
    /\ IF vm.state = "running"
       THEN /\ loc' = Set(t, "was_running", TRUE)
            /\ IF EnterAsyncOK
               THEN /\ vm' = Entered(vm)
                    /\ lock' = NoThread
                    /\ Goto(t, "save_stop_mon")
               ELSE /\ Goto(t, "save_endjob")
                    /\ UNCHANGED <<vm, lock>>
       ELSE /\ Goto(t, "save_mem")
            /\ UNCHANGED <<vm, lock, loc>>
    /\ UNCHANGED <<job, op, held>>

\* qemuProcessStopCPUs(..., VIR_DOMAIN_PAUSED_SAVE, QEMU_ASYNC_JOB_SAVE)
\* answered, then the liveness check of qemu_driver.c:3064
SaveStopMon(t) ==
    /\ pc[t] = "save_stop_mon"
    /\ lock = NoThread
    /\ lock' = t
    /\ \E rc \in Replies :
          IF rc < 0
          THEN /\ vm' = Exited(vm, t)
               /\ Goto(t, "save_endjob")
               /\ UNCHANGED loc
          ELSE /\ vm' = StateSet(Exited(vm, t), "paused", "save")
               /\ IF IsActive
                  THEN /\ Goto(t, "save_mem")
                       /\ UNCHANGED loc
                  ELSE /\ loc' = Set(t, "err", "InternalError")
                       /\ Goto(t, "save_endjob")
    /\ UNCHANGED <<job, op, held>>

\* the caller's flags override was_running (qemu_driver.c:3072-3075);
\* the XML is formatted and qemuDomainSaveMemory writes the header and
\* asks the monitor to migrate to the file
SaveMem(t) ==
    /\ pc[t] = "save_mem"
    /\ \E prepared \in BOOLEAN, flags \in SaveFlags :
          LET wr == IF "running" \in flags THEN TRUE
                    ELSE IF "paused" \in flags THEN FALSE
                    ELSE loc[t].was_running
          IN  IF prepared /\ EnterAsyncOK
              THEN /\ loc' = Set(t, "was_running", wr)
                   /\ vm' = Entered(vm)
                   /\ lock' = NoThread
                   /\ Goto(t, "save_mon")
              ELSE /\ loc' = [loc EXCEPT ![t].was_running = wr,
                                         ![t].err = "OperationFailed"]
                   /\ Goto(t, "save_endjob")
                   /\ UNCHANGED <<vm, lock>>
    /\ UNCHANGED <<job, op, held>>

\* what qemuDomainSaveMemory returns: the monitor's answer to the migration
\* to file, and the result of writing and closing the file
SaveMemoryRet(rc, io) == IF rc < 0 \/ io < 0 THEN -1 ELSE 0

\* a variant that goes on to stop the domain whatever qemuDomainSaveMemory
\* returned
SaveFailedNever(ret) == FALSE

\* if (ret < 0) goto endjob;
SaveFailed(ret) == ret < 0

\* the migration to file is over; on success the header is completed, the
\* process stopped and a transient domain removed
SaveMon(t) ==
    /\ pc[t] = "save_mon"
    /\ lock = NoThread
    /\ \E rc \in Replies, io \in IoResults :
          IF SaveFailed(SaveMemoryRet(rc, io))
          THEN /\ vm' = Exited(vm, t)
               /\ lock' = t
               /\ loc' = Set(t, "err", "OperationFailed")
               /\ Goto(t, "save_endjob")
               /\ UNCHANGED <<job, held>>
          ELSE IF vm.persistent
          THEN /\ vm' = ProcessStopped(Exited(vm, t), "saved")
               /\ lock' = t
               /\ loc' = Set(t, "ret", SaveMemoryRet(rc, io))
               /\ Goto(t, "save_endjob")
               /\ UNCHANGED <<job, held>>
          ELSE \* if (qemuDomainObjEndAsyncJob(driver, vm) > 0)
               \*     qemuDomainRemoveInactive(driver, vm);
               \* vm = NULL;
               /\ job' = AsyncJobEnded
               /\ held' = [held EXCEPT !.async = @ \ {t}]
               /\ vm' = LET v == Unref(StoppedBy(ProcessStopped(Exited(vm, t),
                                                                "saved"), t))
                        IN IF v.refs > 0 THEN Removed(v) ELSE v
               /\ lock' = NoThread
               /\ loc' = [loc EXCEPT ![t].vmp = FALSE,
                             ![t].ret = SaveMemoryRet(rc, io)]
               /\ Goto(t, "cleanup")
    /\ UNCHANGED op

\* endjob: after a failure a guest that was running is resumed
SaveEndjob(t) ==
    /\ pc[t] = "save_endjob"
    /\ IF loc[t].ret # 0 /\ loc[t].was_running /\ IsActive /\ EnterAsyncOK
       THEN /\ vm' = Entered(vm)
            /\ lock' = NoThread
            /\ Goto(t, "save_resume_mon")
       ELSE /\ Goto(t, "aendjob")
            /\ UNCHANGED <<vm, lock>>
    /\ UNCHANGED <<job, op, loc, held>>

\* qemuProcessStartCPUs(..., VIR_DOMAIN_RUNNING_SAVE_CANCELED,
\* QEMU_ASYNC_JOB_SAVE) answered
SaveResumeMon(t) ==
    /\ pc[t] = "save_resume_mon"
    /\ lock = NoThread
    /\ lock' = t
    /\ \E rc \in Replies :
          vm' = IF rc = 0 THEN StateSet(Exited(vm, t), "running", "save_canceled")
                ELSE Exited(vm, t)
    /\ Goto(t, "aendjob")
    /\ UNCHANGED <<job, op, loc, held>>

\* qemuDomainManagedSave after qemuDomainSaveInternal has returned (the
\* object is unlocked by then): if (ret == 0) vm->hasManagedSave = true;
ManagedSaveFlag(t) ==
    /\ pc[t] = "ms_flag"
    /\ vm' = IF loc[t].ret = 0 THEN [vm EXCEPT !.hasManagedSave = TRUE]
             ELSE vm
    /\ Goto(t, "done")
    /\ UNCHANGED <<job, lock, op, loc, held>>

\* ------------- qemuDomainAttachDeviceFlags / qemuDomainDetachDeviceFlags
\* which of live and config the caller asks for
AffectFlags == {{"current"}, {"live"}, {"config"}, {"live", "config"}}

\* the body between qemuDomainObjBeginJob and endjob; capsOk is
\* priv->qemuCaps || virQEMUCapsCacheLookup(...), whose failure leaves
\* through cleanup
DeviceFlagsHeld(t) ==
    /\ pc[t] = "held"
    /\ lock = t
    /\ \E affect \in AffectFlags, parsed \in BOOLEAN, capsOk \in BOOLEAN,
          done \in BOOLEAN :
          LET flags == IF affect = {"current"}
                       THEN (IF IsActive THEN {"live"} ELSE {"config"})
                       ELSE affect
          IN  IF (~IsActive /\ "live" \in flags)
                 \/ ("config" \in flags /\ ~vm.persistent)
              THEN /\ loc' = Set(t, "err", "OperationInvalid")
                   /\ Goto(t, "endjob")
                   /\ UNCHANGED vm
              ELSE IF ~parsed
              THEN /\ loc' = Set(t, "err", "XmlError")
                   /\ Goto(t, "endjob")
                   /\ UNCHANGED vm
              ELSE IF ~capsOk
              THEN /\ loc' = Set(t, "err", "InternalError")
                   /\ Goto(t, "cleanup")
                   /\ UNCHANGED vm
              ELSE IF ~done
              THEN /\ loc' = Set(t, "err", "OperationFailed")
                   /\ Goto(t, "endjob")
                   /\ UNCHANGED vm
              ELSE /\ loc' = Set(t, "ret", 0)
                   /\ Goto(t, "endjob")
                   /\ vm' = IF "config" \in flags THEN AssignDef(vm) ELSE vm
    /\ UNCHANGED <<job, lock, op, held>>

AttachDeviceHeld(t) == op[t] = "attach" /\ DeviceFlagsHeld(t)

DetachDeviceHeld(t) == op[t] = "detach" /\ DeviceFlagsHeld(t)

\* --- qemuDomainMigratePerform / qemuDomainMigrateFinish2 / MigrateBegin3
\* past the permission check the migration code takes the locked object
\* over and returns it unlocked
MigrationTakesOver(t) ==
    /\ pc[t] = "migration"
    /\ lock = t
    /\ lock' = NoThread
    /\ \E rc \in {0, -1} :
          loc' = [loc EXCEPT ![t].ret = rc,
                             ![t].err = IF rc = 0 THEN "none"
                                        ELSE "OperationFailed"]
    /\ Goto(t, "done")
    /\ UNCHANGED <<vm, job, op, held>>

\* ------------------------------------------------------ qemuDomainAbortJob
\* a variant in which an inbound migration can be aborted like any job
CannotAbortNever(kind) == FALSE

\* } else if (priv->job.asyncJob == QEMU_ASYNC_JOB_MIGRATION_IN) {
CannotAbort(kind) == kind = "migration_in"

\* a variant in which the cancellation is not recorded
AbortAsyncJobLost == job

\* qemuDomainObjAbortAsyncJob: the cancellation is requested of the job
AbortAsyncJob == [job EXCEPT !.asyncAbort = TRUE]

\* with the abort job: the checks, then the flag is set and the monitor
\* entered for qemuMonitorMigrateCancel
AbortJobHeld(t) ==
    /\ pc[t] = "held" /\ op[t] = "abortjob"
    /\ lock = t
    /\ IF ~IsActive
          \/ job.asyncJob = "none" \/ job.dump_memory_only
          \/ CannotAbort(job.asyncJob)
       THEN /\ loc' = Set(t, "err", "OperationInvalid")
            /\ Goto(t, "endjob")
            /\ UNCHANGED <<vm, job, lock>>
       ELSE /\ job' = AbortAsyncJob
            /\ vm' = Entered(vm)
            /\ lock' = NoThread
            /\ Goto(t, "abort_mon")
            /\ UNCHANGED loc
    /\ UNCHANGED <<op, held>>

\* ret = qemuMonitorMigrateCancel(priv->mon); qemuDomainObjExitMonitor
AbortJobMon(t) ==
    /\ pc[t] = "abort_mon"
    /\ lock = NoThread
    /\ lock' = t
    /\ vm' = Exited(vm, t)
    /\ \E rc \in Replies :
          loc' = IF rc = 0 THEN Set(t, "ret", 0)
                 ELSE Set(t, "err", "OperationFailed")
    /\ Goto(t, "endjob")
    /\ UNCHANGED <<job, op, held>>

\* ----------------------------- qemuDomainGetJobInfo / qemuDomainGetJobStats
\* how far the clock can be from the start of the job when it is read
MaxElapsed == 1

\* under the object lock and without a job: the progress of the async job
\* is copied out; qemuDomainGetJobStats first refreshes
\* priv->job.info.timeElapsed in place
JobInfoRead(t) ==
    /\ pc[t] = "jobinfo"
    /\ lock = t
    /\ IF ~IsActive
       THEN /\ loc' = Set(t, "err", "OperationInvalid")
            /\ UNCHANGED job
       ELSE IF job.asyncJob = "none" \/ job.dump_memory_only
       THEN /\ loc' = Set(t, "ret", 0)
            /\ UNCHANGED job
       ELSE \E now \in 1..MaxElapsed, ok \in BOOLEAN :
            /\ job' = IF op[t] = "getjobstats"
                      THEN [job EXCEPT !.timeElapsed = now]
                      ELSE job
            /\ loc' = IF ok THEN Set(t, "ret", 0)
                      ELSE Set(t, "err", "InternalError")
    /\ Goto(t, "cleanup")
    /\ UNCHANGED <<vm, lock, op, held>>

\* ------------------------------------------ qemuDomainCoreDumpWithFormat
DumpModes == {"plain", "crash", "reset"}

CoreDumpHeld(t) ==
    /\ pc[t] = "aheld" /\ op[t] = "dump"
    /\ \E live \in BOOLEAN :
          IF ~IsActive
          THEN /\ loc' = Set(t, "err", "OperationInvalid")
               /\ Goto(t, "dump_endjob")
               /\ UNCHANGED <<vm, lock>>
          ELSE IF ~live /\ vm.state = "running"
          THEN /\ loc' = Set(t, "resume", TRUE)
               /\ IF EnterAsyncOK
                  THEN /\ vm' = Entered(vm)
                       /\ lock' = NoThread
                       /\ Goto(t, "dump_stop_mon")
                  ELSE /\ Goto(t, "dump_endjob")
                       /\ UNCHANGED <<vm, lock>>
          ELSE /\ loc' = Set(t, "resume", vm.state = "running")
               /\ Goto(t, "dump_core")
               /\ UNCHANGED <<vm, lock>>
    /\ UNCHANGED <<job, op, held>>

\* qemuProcessStopCPUs(..., VIR_DOMAIN_PAUSED_DUMP, QEMU_ASYNC_JOB_DUMP)
CoreDumpStopMon(t) ==
    /\ pc[t] = "dump_stop_mon"
    /\ lock = NoThread
    /\ lock' = t
    /\ \E rc \in Replies :
          IF rc < 0
          THEN /\ vm' = Exited(vm, t)
               /\ loc' = Set(t, "err", "OperationFailed")
               /\ Goto(t, "dump_endjob")
          ELSE /\ vm' = StateSet(Exited(vm, t), "paused", "dump")
               /\ IF IsActive
                  THEN /\ loc' = Set(t, "paused", TRUE)
                       /\ Goto(t, "dump_core")
                  ELSE /\ loc' = [loc EXCEPT ![t].paused = TRUE,
                                             ![t].err = "InternalError"]
                       /\ Goto(t, "dump_endjob")
    /\ UNCHANGED <<job, op, held>>

\* doCoreDump: the file is opened and the monitor asked to dump into it;
\* with VIR_DUMP_MEMORY_ONLY qemuDumpToFd marks the job dump_memory_only
\* before it enters the monitor
doCoreDump(t, next, failed, memoryOnly) ==
    /\ \E prepared \in BOOLEAN, memory_only \in memoryOnly :
          IF ~prepared
          THEN /\ loc' = Set(t, "err", "OperationFailed")
               /\ Goto(t, failed)
               /\ UNCHANGED <<vm, lock, job>>
          ELSE /\ job' = [job EXCEPT !.dump_memory_only = @ \/ memory_only]
               /\ IF EnterAsyncOK
                  THEN /\ vm' = Entered(vm)
                       /\ lock' = NoThread
                       /\ Goto(t, next)
                       /\ UNCHANGED loc
                  ELSE /\ loc' = Set(t, "err", "OperationFailed")
                       /\ Goto(t, failed)
                       /\ UNCHANGED <<vm, lock>>
    /\ UNCHANGED <<op, held>>

CoreDumpCore(t) ==
    /\ pc[t] = "dump_core"
    /\ doCoreDump(t, "dump_mon", "dump_endjob", BOOLEAN)

CoreDumpMon(t) ==
    /\ pc[t] = "dump_mon"
    /\ lock = NoThread
    /\ lock' = t
    /\ vm' = Exited(vm, t)
    /\ \E rc \in Replies, io \in IoResults :
          IF rc = 0 /\ io = 0
          THEN loc' = [loc EXCEPT ![t].ret = 0, ![t].paused = TRUE]
          ELSE loc' = Set(t, "err", "OperationFailed")
    /\ Goto(t, "dump_endjob")
    /\ UNCHANGED <<job, op, held>>

\* endjob: a crash dump stops the domain (and a transient one is removed
\* once the async job is over); otherwise a reset and a resume may follow
CoreDumpEndjob(t) ==
    /\ pc[t] = "dump_endjob"
    /\ \E mode \in DumpModes :
          IF loc[t].ret = 0 /\ mode = "crash"
          THEN LET v == Unref(StoppedBy(ProcessStopped(vm, "crashed"), t))
               IN  /\ job' = AsyncJobEnded
                   /\ held' = [held EXCEPT !.async = @ \ {t}]
                   /\ IF v.refs = 0
                      THEN /\ vm' = v
                           /\ loc' = Set(t, "vmp", FALSE)
                           /\ lock' = NoThread
                      ELSE IF ~v.persistent
                      THEN /\ vm' = Removed(v)
                           /\ loc' = Set(t, "vmp", FALSE)
                           /\ lock' = NoThread
                      ELSE /\ vm' = v
                           /\ UNCHANGED <<loc, lock>>
                   /\ Goto(t, "cleanup")
          ELSE IF ((loc[t].resume /\ loc[t].paused) \/ mode = "reset")
                  /\ IsActive
          THEN IF loc[t].ret = 0 /\ mode = "reset"
               THEN /\ vm' = Entered(vm)
                    /\ lock' = NoThread
                    /\ Goto(t, "dump_reset_mon")
                    /\ UNCHANGED <<job, held, loc>>
               ELSE /\ Goto(t, "dump_resume")
                    /\ UNCHANGED <<vm, job, held, loc, lock>>
          ELSE /\ Goto(t, "aendjob")
               /\ UNCHANGED <<vm, job, held, loc, lock>>
    /\ UNCHANGED op

\* ret = qemuMonitorSystemReset(priv->mon), in a plain monitor guard
CoreDumpResetMon(t) ==
    /\ pc[t] = "dump_reset_mon"
    /\ lock = NoThread
    /\ lock' = t
    /\ vm' = Exited(vm, t)
    /\ \E rc \in Replies :
          loc' = [loc EXCEPT ![t].ret = rc,
                             ![t].err = IF rc = 0 THEN @ ELSE "OperationFailed"]
    /\ Goto(t, "dump_resume")
    /\ UNCHANGED <<job, op, held>>

\* if (resume && qemuProcessStartCPUs(..., QEMU_ASYNC_JOB_DUMP) < 0)
CoreDumpResume(t) ==
    /\ pc[t] = "dump_resume"
    /\ IF loc[t].resume
       THEN IF EnterAsyncOK
            THEN /\ vm' = Entered(vm)
                 /\ lock' = NoThread
                 /\ Goto(t, "dump_resume_mon")
                 /\ UNCHANGED loc
            ELSE /\ loc' = Set(t, "err", "OperationFailed")
                 /\ Goto(t, "aendjob")
                 /\ UNCHANGED <<vm, lock>>
       ELSE /\ Goto(t, "aendjob")
            /\ UNCHANGED <<vm, lock, loc>>
    /\ UNCHANGED <<job, op, held>>

CoreDumpResumeMon(t) ==
    /\ pc[t] = "dump_resume_mon"
    /\ lock = NoThread
    /\ lock' = t
    /\ \E rc \in Replies :
          IF rc = 0
          THEN /\ vm' = StateSet(Exited(vm, t), "running", "unpaused")
               /\ UNCHANGED loc
          ELSE /\ vm' = Exited(vm, t)
               /\ loc' = Set(t, "err", "OperationFailed")
    /\ Goto(t, "aendjob")
    /\ UNCHANGED <<job, op, held>>

\* --- qemuDomainSnapshotCreateXML, qemuDomainSnapshotCreateActiveExternal
\* the mask that lets the memory phase of a snapshot be suspended or
\* cancelled (qemu_driver.c:13295)
SnapshotMemoryMask == DEFAULT_JOB_MASK \cup {"suspend", "migration_op"}

SetAsyncJobMask(m) == [job EXCEPT !.mask = m]

\* qemuDomainSnapshotCreateXML up to the snapshot itself: the former
\* current snapshot is unmarked; an inactive domain is snapshotted on disk
SnapshotCreatePre(t) ==
    /\ pc[t] = "pre" /\ op[t] \in {"snapshot", "snapshot_internal"}
    /\ lock = t
    /\ \E metaOk \in BOOLEAN :
          IF vm.current_snapshot /\ ~metaOk
          THEN /\ loc' = Set(t, "err", "InternalError")
               /\ Goto(t, "snap_tail")
               /\ UNCHANGED vm
          ELSE /\ vm' = [vm EXCEPT !.current_snapshot = FALSE]
               /\ IF IsActive
                  THEN /\ Goto(t, IF op[t] = "snapshot" THEN "abegin"
                                  ELSE "begin")
                       /\ UNCHANGED loc
                  ELSE /\ loc' = Set(t, "ret", 0)
                       /\ Goto(t, "snap_tail")
    /\ UNCHANGED <<job, lock, op, held>>

\* after qemuDomainObjBeginAsyncJob: a running guest is paused unless the
\* snapshot is live (pause: a memory snapshot that is not live, or several
\* disks without transactions)
SnapshotHeld(t) ==
    /\ pc[t] = "aheld" /\ op[t] = "snapshot"
    /\ \E pause \in BOOLEAN :
          IF vm.state = "running"
          THEN /\ loc' = Set(t, "resume", TRUE)
               /\ IF ~pause
                  THEN /\ Goto(t, "snap_mem")
                       /\ UNCHANGED <<vm, lock>>
                  ELSE IF EnterAsyncOK
                  THEN /\ vm' = Entered(vm)
                       /\ lock' = NoThread
                       /\ Goto(t, "snap_stop_mon")
                  ELSE /\ Goto(t, "snap_endjob")
                       /\ UNCHANGED <<vm, lock>>
          ELSE /\ Goto(t, "snap_mem")
               /\ UNCHANGED <<vm, lock, loc>>
    /\ UNCHANGED <<job, op, held>>

\* qemuProcessStopCPUs(..., VIR_DOMAIN_PAUSED_SNAPSHOT, ...SNAPSHOT)
SnapshotStopMon(t) ==
    /\ pc[t] = "snap_stop_mon"
    /\ lock = NoThread
    /\ lock' = t
    /\ \E rc \in Replies :
          IF rc < 0
          THEN /\ vm' = Exited(vm, t)
               /\ loc' = Set(t, "err", "OperationFailed")
               /\ Goto(t, "snap_endjob")
          ELSE /\ vm' = StateSet(Exited(vm, t), "paused", "snapshot")
               /\ IF IsActive
                  THEN /\ Goto(t, "snap_mem")
                       /\ UNCHANGED loc
                  ELSE /\ loc' = Set(t, "err", "InternalError")
                       /\ Goto(t, "snap_endjob")
    /\ UNCHANGED <<job, op, held>>

\* the memory snapshot: the mask is widened, the memory saved to a file
SnapshotMemory(t) ==
    /\ pc[t] = "snap_mem"
    /\ lock = t
    /\ \E memory \in BOOLEAN, allowed \in BOOLEAN, prepared \in BOOLEAN :
          IF ~memory
          THEN /\ Goto(t, "snap_disk")
               /\ UNCHANGED <<vm, job, lock, loc>>
          ELSE IF ~allowed
          THEN /\ loc' = [loc EXCEPT ![t].memory = TRUE,
                                     ![t].err = "OperationFailed"]
               /\ Goto(t, "snap_endjob")
               /\ UNCHANGED <<vm, job, lock>>
          ELSE /\ job' = SetAsyncJobMask(SnapshotMemoryMask)
               /\ IF prepared /\ EnterAsyncOK
                  THEN /\ loc' = Set(t, "memory", TRUE)
                       /\ vm' = Entered(vm)
                       /\ lock' = NoThread
                       /\ Goto(t, "snap_mem_mon")
                  ELSE /\ loc' = [loc EXCEPT ![t].memory = TRUE,
                                             ![t].err = "OperationFailed"]
                       /\ Goto(t, "snap_endjob")
                       /\ UNCHANGED <<vm, lock>>
    /\ UNCHANGED <<op, held>>

\* qemuDomainSaveMemory is back; on success the mask is narrowed again
SnapshotMemoryMon(t) ==
    /\ pc[t] = "snap_mem_mon"
    /\ lock = NoThread
    /\ lock' = t
    /\ vm' = Exited(vm, t)
    /\ \E rc \in Replies, io \in IoResults :
          IF rc = 0 /\ io = 0
          THEN /\ job' = SetAsyncJobMask(DEFAULT_JOB_MASK)
               /\ Goto(t, "snap_disk")
               /\ UNCHANGED loc
          ELSE /\ loc' = Set(t, "err", "OperationFailed")
               /\ Goto(t, "snap_endjob")
               /\ UNCHANGED job
    /\ UNCHANGED <<op, held>>

\* qemuDomainSnapshotCreateDiskActive
SnapshotCreateDiskActive(t) ==
    /\ pc[t] = "snap_disk"
    /\ lock = t
    /\ \E prepared \in BOOLEAN :
          IF ~IsActive
          THEN /\ loc' = Set(t, "err", "OperationInvalid")
               /\ Goto(t, "snap_endjob")
               /\ UNCHANGED <<vm, lock>>
          ELSE IF prepared /\ EnterAsyncOK
          THEN /\ vm' = Entered(vm)
               /\ lock' = NoThread
               /\ Goto(t, "snap_disk_mon")
               /\ UNCHANGED loc
          ELSE /\ loc' = Set(t, "err", "OperationFailed")
               /\ Goto(t, "snap_endjob")
               /\ UNCHANGED <<vm, lock>>
    /\ UNCHANGED <<job, op, held>>

\* the disks are snapshotted: a halting snapshot (persistent domains only)
\* stops the domain and ends the async job at once; a memory snapshot of
\* a pm-suspended guest leaves it paused
SnapshotDiskMon(t) ==
    /\ pc[t] = "snap_disk_mon"
    /\ lock = NoThread
    /\ lock' = t
    /\ \E rc \in Replies, halt \in BOOLEAN :
          IF rc < 0 \/ ~IsActive
          THEN /\ vm' = Exited(vm, t)
               /\ loc' = Set(t, "err", "OperationFailed")
               /\ Goto(t, "snap_endjob")
               /\ UNCHANGED <<job, held>>
          ELSE IF halt /\ vm.persistent
          THEN /\ vm' = Unref(ProcessStopped(Exited(vm, t), "from_snapshot"))
               /\ job' = AsyncJobEnded
               /\ held' = [held EXCEPT !.async = @ \ {t}]
               /\ loc' = [loc EXCEPT ![t].resume = FALSE, ![t].ret = 0]
               /\ Goto(t, "snap_tail")
          ELSE /\ vm' = IF loc[t].memory /\ vm.state = "pmsuspended"
                        THEN StateSet(Exited(vm, t), "paused", "from_snapshot")
                        ELSE Exited(vm, t)
               /\ loc' = Set(t, "ret", 0)
               /\ Goto(t, "snap_endjob")
               /\ UNCHANGED <<job, held>>
    /\ UNCHANGED op

\* endjob: if (resume && vm && virDomainObjIsActive(vm) &&
\*             qemuProcessStartCPUs(...) < 0)
SnapshotEndjob(t) ==
    /\ pc[t] = "snap_endjob"
    /\ lock = t
    /\ IF loc[t].resume /\ IsActive /\ EnterAsyncOK
       THEN /\ vm' = Entered(vm)
            /\ lock' = NoThread
            /\ Goto(t, "snap_resume_mon")
       ELSE /\ Goto(t, "snap_end")
            /\ UNCHANGED <<vm, lock>>
    /\ UNCHANGED <<job, op, loc, held>>

\* qemuProcessStartCPUs is back; when it failed: ret = -1; goto cleanup;
SnapshotResumeMon(t) ==
    /\ pc[t] = "snap_resume_mon"
    /\ lock = NoThread
    /\ lock' = t
    /\ \E rc \in Replies :
          IF rc = 0
          THEN /\ vm' = StateSet(Exited(vm, t), "running", "unpaused")
               /\ Goto(t, "snap_end")
               /\ UNCHANGED loc
          ELSE /\ vm' = Exited(vm, t)
               /\ loc' = [loc EXCEPT ![t].ret = -1,
                                     ![t].err = "OperationFailed"]
               /\ Goto(t, "snap_tail")
    /\ UNCHANGED <<job, op, held>>

\* if (vm && !qemuDomainObjEndAsyncJob(driver, vm)) { *vmptr = NULL; ... }
SnapshotEnd(t) ==
    /\ pc[t] = "snap_end"
    /\ lock = t
    /\ job' = AsyncJobEnded
    /\ held' = [held EXCEPT !.async = @ \ {t}]
    /\ vm' = Unref(vm)
    /\ IF vm.refs > 1
       THEN UNCHANGED <<loc, lock>>
       ELSE /\ loc' = [loc EXCEPT ![t].vmp = FALSE, ![t].ret = -1]
            /\ lock' = NoThread
    /\ Goto(t, "snap_tail")
    /\ UNCHANGED op

\* ---------------------------------- qemuDomainSnapshotCreateActiveInternal
\* with the modify job: a running guest is paused by the driver itself
\* before the savevm command, a guest in another state is left as it is
SnapshotInternalHeld(t) ==
    /\ pc[t] = "held" /\ op[t] = "snapshot_internal"
    /\ lock = t
    /\ IF ~IsActive
       THEN /\ loc' = Set(t, "err", "OperationInvalid")
            /\ Goto(t, "snapi_endjob")
            /\ UNCHANGED <<vm, lock>>
       ELSE /\ vm' = Entered(vm)
            /\ lock' = NoThread
            /\ Goto(t, IF vm.state = "running" THEN "snapi_stop_mon"
                       ELSE "snapi_mon")
            /\ UNCHANGED loc
    /\ UNCHANGED <<job, op, held>>

\* qemuProcessStopCPUs(..., VIR_DOMAIN_PAUSED_SAVE, ...) is back: resume =
\* true; the savevm command is sent unless the guest has quit
SnapshotInternalStopMon(t) ==
    /\ pc[t] = "snapi_stop_mon"
    /\ lock = NoThread
    /\ \E rc \in Replies :
          IF rc < 0
          THEN /\ vm' = Exited(vm, t)
               /\ lock' = t
               /\ loc' = Set(t, "err", "OperationFailed")
               /\ Goto(t, "snapi_cleanup")
          ELSE IF ~IsActive
          THEN /\ vm' = StateSet(Exited(vm, t), "paused", "save")
               /\ lock' = t
               /\ loc' = [loc EXCEPT ![t].resume = TRUE,
                                     ![t].err = "InternalError"]
               /\ Goto(t, "snapi_cleanup")
          ELSE /\ vm' = StateSet(vm, "paused", "save")
               /\ loc' = Set(t, "resume", TRUE)
               /\ Goto(t, "snapi_mon")
               /\ UNCHANGED lock
    /\ UNCHANGED <<job, op, held>>

\* ret = qemuMonitorCreateSnapshot(...); with
\* VIR_DOMAIN_SNAPSHOT_CREATE_HALT (persistent domains only) the domain is
\* stopped and the job ended here: resume = false; vm = NULL;
SnapshotInternalMon(t) ==
    /\ pc[t] = "snapi_mon"
    /\ lock = NoThread
    /\ lock' = t
    /\ \E rc \in Replies, halt \in BOOLEAN :
          IF rc < 0
          THEN /\ vm' = Exited(vm, t)
               /\ loc' = Set(t, "err", "OperationFailed")
               /\ UNCHANGED <<job, held>>
          ELSE IF halt /\ vm.persistent
          THEN /\ vm' = Unref(ProcessStopped(Exited(vm, t), "from_snapshot"))
               /\ job' = JobEnded
               /\ held' = [held EXCEPT !.sync = @ \ {t}]
               /\ loc' = [loc EXCEPT ![t].ret = 0, ![t].resume = FALSE,
                             ![t].event = << <<"stopped", "from_snapshot">> >>]
          ELSE /\ vm' = Exited(vm, t)
               /\ loc' = Set(t, "ret", 0)
               /\ UNCHANGED <<job, held>>
    /\ Goto(t, "snapi_cleanup")
    /\ UNCHANGED op

\* cleanup: if (resume && virDomainObjIsActive(vm) &&
\*              qemuProcessStartCPUs(...) < 0)
SnapshotInternalCleanup(t) ==
    /\ pc[t] = "snapi_cleanup"
    /\ lock = t
    /\ IF loc[t].resume /\ IsActive
       THEN /\ vm' = Entered(vm)
            /\ lock' = NoThread
            /\ Goto(t, "snapi_resume_mon")
       ELSE /\ Goto(t, "snapi_endjob")
            /\ UNCHANGED <<vm, lock>>
    /\ UNCHANGED <<job, op, loc, held>>

\* qemuProcessStartCPUs is back; when it failed the suspended event is
\* made and the error reported; ret is not touched
SnapshotInternalResumeMon(t) ==
    /\ pc[t] = "snapi_resume_mon"
    /\ lock = NoThread
    /\ lock' = t
    /\ \E rc \in Replies :
          IF rc = 0
          THEN /\ vm' = StateSet(Exited(vm, t), "running", "unpaused")
               /\ UNCHANGED loc
          ELSE /\ vm' = Exited(vm, t)
               /\ loc' = [loc EXCEPT
                             ![t].err = "OperationFailed",
                             ![t].event = << <<"suspended", "api_error">> >>]
    /\ Goto(t, "snapi_endjob")
    /\ UNCHANGED <<job, op, held>>

\* endjob: if (vm && !qemuDomainObjEndJob(driver, vm)) { *vmptr = NULL;
\* ret = -1; }  if (event) qemuDomainEventQueue(driver, event);
SnapshotInternalEndjob(t) ==
    /\ pc[t] = "snapi_endjob"
    /\ lock = t
    /\ IF t \in held.sync
       THEN /\ job' = JobEnded
            /\ held' = [held EXCEPT !.sync = @ \ {t}]
            /\ vm' = Unref(vm)
            /\ IF vm.refs > 1
               THEN /\ loc' = Set(t, "event", <<>>)
                    /\ UNCHANGED lock
               ELSE /\ loc' = [loc EXCEPT ![t].vmp = FALSE, ![t].ret = -1,
                                          ![t].event = <<>>]
                    /\ lock' = NoThread
       ELSE /\ loc' = Set(t, "event", <<>>)
            /\ UNCHANGED <<vm, job, held, lock>>
    /\ Goto(t, "snap_tail")
    /\ UNCHANGED op

\* cleanup of qemuDomainSnapshotCreateXML: the new snapshot becomes the
\* current one when its metadata is written; the object is unlocked
SnapshotCreateTail(t) ==
    /\ pc[t] = "snap_tail"
    /\ IF loc[t].vmp
       THEN /\ lock = t
            /\ lock' = NoThread
            /\ \E metaOk \in BOOLEAN :
                  IF loc[t].ret # 0
                  THEN UNCHANGED <<vm, loc>>
                  ELSE IF metaOk
                  THEN /\ vm' = [vm EXCEPT !.current_snapshot = TRUE]
                       /\ UNCHANGED loc
                  ELSE /\ loc' = [loc EXCEPT ![t].ret = -1,
                                             ![t].err = "InternalError"]
                       /\ UNCHANGED vm
       ELSE UNCHANGED <<vm, loc, lock>>
    /\ Goto(t, "done")
    /\ UNCHANGED <<job, op, held>>

\* -------------------------------------------------- qemuDomainUndefineFlags
\* an active domain is kept running as a transient one; an inactive one
\* leaves the registry
UndefineFlags(t) ==
    /\ pc[t] = "pre" /\ op[t] = "undefine"
    /\ lock = t
    /\ \E ok \in BOOLEAN :
          IF ~vm.persistent
          THEN /\ loc' = Set(t, "err", "OperationInvalid")
               /\ UNCHANGED <<vm, lock>>
          ELSE IF ~ok
          THEN /\ loc' = Set(t, "err", "OperationFailed")
               /\ UNCHANGED <<vm, lock>>
          ELSE IF IsActive
          THEN /\ vm' = [vm EXCEPT !.persistent = FALSE]
               /\ loc' = Set(t, "ret", 0)
               /\ UNCHANGED lock
          ELSE /\ vm' = Removed(vm)
               /\ lock' = NoThread
               /\ loc' = [loc EXCEPT ![t].ret = 0, ![t].vmp = FALSE]
    /\ Goto(t, "cleanup")
    /\ UNCHANGED <<job, op, held>>

\* ---------------------------------------------- qemuDomainRevertToSnapshot
\* the state a snapshot was taken in
SnapshotStates == {"running", "paused", "shutoff"}

\* up to qemuDomainObjBeginJob: validation, then the current snapshot is
\* unmarked; offline is a snapshot of an inactive domain reverted to
\* without a request to run or pause, which a transient domain refuses
RevertPre(t) ==
    /\ pc[t] = "pre" /\ op[t] = "revert"
    /\ lock = t
    /\ \E valid \in BOOLEAN, metaOk \in BOOLEAN, offline \in BOOLEAN :
          IF ~valid \/ (~vm.persistent /\ offline)
          THEN /\ loc' = Set(t, "err", "OperationInvalid")
               /\ Goto(t, "rev_tail")
               /\ UNCHANGED vm
          ELSE IF vm.current_snapshot /\ ~metaOk
          THEN /\ loc' = Set(t, "err", "InternalError")
               /\ Goto(t, "rev_tail")
               /\ UNCHANGED vm
          ELSE /\ vm' = [vm EXCEPT !.current_snapshot = FALSE]
               /\ Goto(t, "begin")
               /\ loc' = Set(t, "offline", offline)
    /\ UNCHANGED <<job, lock, op, held>>

\* qemuDomainDefCheckABIStability of the snapshot's definition against the
\* live one, and VIR_DOMAIN_SNAPSHOT_REVERT_FORCE
AbiChecks == {"stable", "risky", "forced"}

\* the lifecycle events of a revert (detail ..._FROM_SNAPSHOT, but
\* VIR_DOMAIN_EVENT_RESUMED for the resumed event)
RevertEvent(type) == <<type, "from_snapshot">>

\* the state the revert finds the domain in
Before == IF ~IsActive THEN "inactive" ELSE vm.state

\* after qemuProcessStartCPUs: the event made so far is dropped;
\* if (was_stopped) started, else if (was_running) resumed
ResumedEvent(was_stopped, was_running) ==
    IF was_stopped THEN <<RevertEvent("started")>>
    ELSE IF was_running THEN << <<"resumed", "resumed">> >>
    ELSE <<>>

\* with the modify job: an online snapshot is loaded into the running
\* process (paused first) or, when the definitions differ and the revert
\* is forced, the process is stopped and a new one started; an offline
\* snapshot stops the domain and may start it again
RevertHeld(t) ==
    /\ pc[t] = "held" /\ op[t] = "revert"
    /\ lock = t
    /\ \E snapState \in SnapshotStates, started \in BOOLEAN,
          reverted \in BOOLEAN, start \in {"no", "running", "paused"},
          abi \in AbiChecks :
          ((snapState = "shutoff" /\ start = "no") <=> loc[t].offline) /\
          IF snapState # "shutoff"
          THEN IF IsActive /\ abi = "stable"
               THEN /\ vm' = Entered(vm)
                    /\ lock' = NoThread
                    /\ Goto(t, IF vm.state = "running" THEN "rev_stop_mon"
                               ELSE "rev_load_mon")
                    /\ loc' = [loc EXCEPT ![t].before = Before,
                                  ![t].was_running = vm.state = "running"]
                    /\ UNCHANGED <<job, held>>
               ELSE IF IsActive /\ abi = "risky"
               THEN /\ loc' = [loc EXCEPT ![t].err = "SnapshotRevertRisky",
                                          ![t].before = Before]
                    /\ Goto(t, "endjob")
                    /\ UNCHANGED <<vm, job, held, lock>>
               ELSE IF IsActive /\ started
               THEN /\ vm' = ProcessStarted(
                                 AssignDef(StoppedBy(ProcessStopped(
                                     vm, "from_snapshot"), t)),
                                 "paused", "from_snapshot")
                    /\ loc' = [loc EXCEPT ![t].before = Before,
                                  ![t].was_stopped = TRUE,
                                  ![t].queued = <<RevertEvent("stopped")>>,
                                  ![t].event = <<RevertEvent("started")>>]
                    /\ Goto(t, "rev_touch")
                    /\ UNCHANGED <<job, held, lock>>
               ELSE IF IsActive
               THEN /\ vm' = AssignDef(StoppedBy(ProcessStopped(
                                 vm, "from_snapshot"), t))
                    /\ loc' = [loc EXCEPT ![t].err = "OperationFailed",
                                  ![t].before = Before,
                                  ![t].was_stopped = TRUE,
                                  ![t].queued = <<RevertEvent("stopped")>>,
                                  ![t].event = <<RevertEvent("started")>>]
                    /\ Goto(t, "endjob")
                    /\ UNCHANGED <<job, held, lock>>
               ELSE IF started
               THEN /\ vm' = ProcessStarted(AssignDef(vm), "paused",
                                            "from_snapshot")
                    /\ loc' = [loc EXCEPT ![t].before = Before,
                                  ![t].was_stopped = TRUE,
                                  ![t].event = <<RevertEvent("started")>>]
                    /\ Goto(t, "rev_touch")
                    /\ UNCHANGED <<job, held, lock>>
               ELSE /\ vm' = AssignDef(vm)
                    /\ loc' = [loc EXCEPT ![t].err = "OperationFailed",
                                  ![t].before = Before,
                                  ![t].was_stopped = TRUE,
                                  ![t].event = <<RevertEvent("started")>>]
                    /\ Goto(t, "endjob")
                    /\ UNCHANGED <<job, held, lock>>
          ELSE LET stopped == IF IsActive
                              THEN StoppedBy(ProcessStopped(
                                                 vm, "from_snapshot"), t)
                              ELSE vm
                   first == IF IsActive THEN <<RevertEvent("stopped")>> ELSE <<>>
               IN  IF ~reverted \/ (start # "no" /\ ~started)
                   THEN IF ~vm.persistent
                        THEN \* if (qemuDomainObjEndJob(driver, vm))
                             \*     qemuDomainRemoveInactive(driver, vm);
                             \* vm = NULL; goto cleanup;
                             /\ job' = JobEnded
                             /\ held' = [held EXCEPT !.sync = @ \ {t}]
                             /\ vm' = LET v == Unref(IF reverted
                                                     THEN AssignDef(stopped)
                                                     ELSE stopped)
                                      IN IF v.refs > 0 THEN Removed(v) ELSE v
                             /\ lock' = NoThread
                             /\ loc' = [loc EXCEPT ![t].vmp = FALSE,
                                           ![t].err = "OperationFailed",
                                           ![t].before = Before,
                                           ![t].queued =
                                               IF reverted THEN first ELSE <<>>,
                                           ![t].event =
                                               IF reverted THEN <<>> ELSE first]
                             /\ Goto(t, "rev_tail")
                        ELSE /\ vm' = IF reverted THEN AssignDef(stopped)
                                      ELSE stopped
                             /\ loc' = [loc EXCEPT ![t].err = "OperationFailed",
                                           ![t].before = Before,
                                           ![t].queued =
                                               IF reverted THEN first ELSE <<>>,
                                           ![t].event =
                                               IF reverted THEN <<>> ELSE first]
                             /\ Goto(t, "endjob")
                             /\ UNCHANGED <<job, held, lock>>
                   ELSE /\ vm' = IF start = "no" THEN AssignDef(stopped)
                                 ELSE ProcessStarted(AssignDef(stopped),
                                                     start, "from_snapshot")
                        /\ loc' = [loc EXCEPT ![t].ret = 0,
                                      ![t].before = Before,
                                      ![t].queued =
                                          IF start = "no" THEN <<>> ELSE first,
                                      ![t].event =
                                          CASE start = "no" -> first
                                            [] start = "paused" ->
                                                  <<RevertEvent("started"), RevertEvent("suspended")>>
                                            [] OTHER -> <<RevertEvent("started")>>]
                        /\ Goto(t, "endjob")
                        /\ UNCHANGED <<job, held, lock>>
    /\ UNCHANGED op

\* qemuProcessStopCPUs(..., VIR_DOMAIN_PAUSED_FROM_SNAPSHOT, ...NONE) is
\* back; then the monitor is asked to load the snapshot
RevertStopMon(t) ==
    /\ pc[t] = "rev_stop_mon"
    /\ lock = NoThread
    /\ \E rc \in Replies :
          IF rc < 0
          THEN /\ vm' = Exited(vm, t)
               /\ lock' = t
               /\ loc' = Set(t, "err", "OperationFailed")
               /\ Goto(t, "endjob")
          ELSE IF ~IsActive
          THEN /\ vm' = StateSet(Exited(vm, t), "paused", "from_snapshot")
               /\ lock' = t
               /\ loc' = [loc EXCEPT ![t].err = "InternalError",
                                     ![t].event = <<RevertEvent("suspended")>>]
               /\ Goto(t, "endjob")
          ELSE /\ vm' = StateSet(vm, "paused", "from_snapshot")
               /\ Goto(t, "rev_load_mon")
               /\ loc' = Set(t, "event", <<RevertEvent("suspended")>>)
               /\ UNCHANGED lock
    /\ UNCHANGED <<job, op, held>>

\* rc = qemuMonitorLoadSnapshot(priv->mon, snap->def->name);
RevertLoadMon(t) ==
    /\ pc[t] = "rev_load_mon"
    /\ lock = NoThread
    /\ lock' = t
    /\ \E rc \in Replies :
          IF rc < 0
          THEN /\ vm' = Exited(vm, t)
               /\ loc' = Set(t, "err", "OperationFailed")
               /\ Goto(t, "endjob")
          ELSE /\ vm' = AssignDef(Exited(vm, t))
               /\ Goto(t, "rev_touch")
               /\ UNCHANGED loc
    /\ UNCHANGED <<job, op, held>>

\* Touch up domain state: left paused, or resumed
RevertTouchUp(t) ==
    /\ pc[t] = "rev_touch"
    /\ lock = t
    /\ \E target \in {"paused", "running"} :
          IF target = "paused"
          THEN /\ vm' = StateSet(vm, "paused", "from_snapshot")
               /\ loc' = [loc EXCEPT ![t].ret = 0,
                             ![t].event = IF loc[t].was_stopped
                                          THEN Append(@, RevertEvent("suspended")) ELSE @]
               /\ Goto(t, "endjob")
               /\ UNCHANGED lock
          ELSE IF ~IsActive
          THEN /\ loc' = Set(t, "err", "InternalError")
               /\ Goto(t, "endjob")
               /\ UNCHANGED <<vm, lock>>
          ELSE /\ vm' = Entered(vm)
               /\ lock' = NoThread
               /\ Goto(t, "rev_start_mon")
               /\ UNCHANGED loc
    /\ UNCHANGED <<job, op, held>>

\* qemuProcessStartCPUs(..., VIR_DOMAIN_RUNNING_FROM_SNAPSHOT, ...NONE)
RevertStartMon(t) ==
    /\ pc[t] = "rev_start_mon"
    /\ lock = NoThread
    /\ lock' = t
    /\ \E rc \in Replies :
          IF rc < 0
          THEN /\ vm' = Exited(vm, t)
               /\ loc' = Set(t, "err", "OperationFailed")
          ELSE /\ vm' = StateSet(Exited(vm, t), "running", "from_snapshot")
               /\ loc' = [loc EXCEPT ![t].ret = 0,
                             ![t].event = ResumedEvent(loc[t].was_stopped,
                                                       loc[t].was_running)]
    /\ Goto(t, "endjob")
    /\ UNCHANGED <<job, op, held>>

\* if (event) { qemuDomainEventQueue(driver, event); if (event2) ... };
\* the locals of the call are not used after this
RevertQueued(t, l) ==
    [l EXCEPT ![t].event = <<>>, ![t].queued = <<>>, ![t].before = "none",
              ![t].was_stopped = FALSE, ![t].was_running = FALSE]

\* cleanup: the snapshot becomes the current one when its metadata is
\* written; the events are queued and the object is unlocked
RevertTail(t) ==
    /\ pc[t] = "rev_tail"
    /\ IF loc[t].vmp
       THEN /\ lock = t
            /\ lock' = NoThread
            /\ \E metaOk \in BOOLEAN :
                  IF loc[t].ret # 0
                  THEN /\ loc' = RevertQueued(t, loc)
                       /\ UNCHANGED vm
                  ELSE IF metaOk
                  THEN /\ vm' = [vm EXCEPT !.current_snapshot = TRUE]
                       /\ loc' = RevertQueued(t, loc)
                  ELSE /\ loc' = RevertQueued(t,
                                      [loc EXCEPT ![t].ret = -1,
                                                  ![t].err = "InternalError"])
                       /\ UNCHANGED vm
       ELSE /\ loc' = RevertQueued(t, loc)
            /\ UNCHANGED <<vm, lock>>
    /\ Goto(t, "done")
    /\ UNCHANGED <<job, op, held>>

\* ---------------------------------------------------- qemuDomainOpenGraphics
OpenGraphicsPre(t) ==
    /\ pc[t] = "pre" /\ op[t] = "opengraphics"
    /\ lock = t
    /\ \E valid \in BOOLEAN :
          IF ~IsActive
          THEN /\ loc' = Set(t, "err", "OperationInvalid")
               /\ Goto(t, "cleanup")
          ELSE IF ~valid
          THEN /\ loc' = Set(t, "err", "InternalError")
               /\ Goto(t, "cleanup")
          ELSE /\ Goto(t, "begin")
               /\ UNCHANGED loc
    /\ UNCHANGED <<vm, job, lock, op, held>>

\* qemuDomainObjBeginJob is followed at once by qemuDomainObjEnterMonitor
OpenGraphicsHeld(t) ==
    /\ pc[t] = "held" /\ op[t] = "opengraphics"
    /\ lock = t
    /\ vm' = Entered(vm)
    /\ lock' = NoThread
    /\ Goto(t, "og_mon")
    /\ UNCHANGED <<job, op, loc, held>>

OpenGraphicsMon(t) ==
    /\ pc[t] = "og_mon"
    /\ lock = NoThread
    /\ lock' = t
    /\ vm' = Exited(vm, t)
    /\ \E rc \in Replies :
          loc' = [loc EXCEPT ![t].ret = rc,
                             ![t].err = IF rc = 0 THEN "none"
                                        ELSE "OperationFailed"]
    /\ Goto(t, "endjob")
    /\ UNCHANGED <<job, op, held>>

\* ---------------------------------------------------- qemuDomainGetBlockInfo
\* disk = vm->def->disks[idx]; a plain file is measured from the host; the
\* allocation of a non-raw image on a block device is asked of the
\* hypervisor, with a query job, when the domain is active
BlockInfoPre(t) ==
    /\ pc[t] = "pre" /\ op[t] = "blockinfo"
    /\ lock = t
    /\ \E how \in {"badpath", "host", "extent"} :
          CASE how = "badpath" ->
                  /\ loc' = Set(t, "err", "InvalidArg")
                  /\ Goto(t, "cleanup")
            [] how = "host" ->
                  /\ loc' = Set(t, "ret", 0)
                  /\ Goto(t, "bi_cleanup")
            [] OTHER ->
                  IF ~IsActive
                  THEN /\ loc' = [loc EXCEPT ![t].activeFail = TRUE,
                                             ![t].ret = 0]
                       /\ Goto(t, "bi_cleanup")
                  ELSE /\ Goto(t, "begin")
                       /\ UNCHANGED loc
    /\ UNCHANGED <<vm, job, lock, op, held>>

BlockInfoHeld(t) ==
    /\ pc[t] = "held" /\ op[t] = "blockinfo"
    /\ lock = t
    /\ IF IsActive
       THEN /\ vm' = Entered(vm)
            /\ lock' = NoThread
            /\ Goto(t, "bi_mon")
            /\ UNCHANGED loc
       ELSE /\ loc' = [loc EXCEPT ![t].activeFail = TRUE, ![t].ret = 0]
            /\ Goto(t, "endjob")
            /\ UNCHANGED <<vm, lock>>
    /\ UNCHANGED <<job, op, held>>

\* ret = qemuMonitorGetBlockExtent(priv->mon, alias, &info->allocation)
BlockInfoMon(t) ==
    /\ pc[t] = "bi_mon"
    /\ lock = NoThread
    /\ lock' = t
    /\ vm' = Exited(vm, t)
    /\ \E rc \in Replies :
          loc' = [loc EXCEPT ![t].ret = rc,
                             ![t].err = IF rc = 0 THEN "none"
                                        ELSE "OperationFailed"]
    /\ Goto(t, "endjob")
    /\ UNCHANGED <<job, op, held>>

\* what a read through disk, a pointer into the definition of the object,
\* finds: the definition, or anything once the object has been freed
DiskSrc(t) == IF loc[t].vmp THEN {vm.def} ELSE {0, 1}

\* cleanup: if (disk) virStorageFileDeinit(disk->src);
\* if (activeFail && vm && !vm->persistent) ...; virObjectUnlock(vm);
BlockInfoCleanup(t) ==
    /\ pc[t] = "bi_cleanup"
    /\ \E d \in DiskSrc(t) :
          loc' = IF loc[t].activeFail /\ loc[t].vmp /\ ~vm.persistent
                 THEN [loc EXCEPT ![t].src = d, ![t].ret = -1,
                                  ![t].err = "OperationInvalid"]
                 ELSE [loc EXCEPT ![t].src = d]
    /\ IF loc[t].vmp
       THEN lock' = NoThread
       ELSE UNCHANGED lock
    /\ Goto(t, "done")
    /\ UNCHANGED <<vm, job, op, held>>

\* --------------------------------------------------- qemuDomainShutdownFlags
ShutdownFlags == {{}, {"agent"}, {"acpi"}, {"agent", "acpi"}}

\* the agent is connected only to an active domain
AgentStates == IF IsActive THEN BOOLEAN ELSE {FALSE}

\* which channel to use, decided before the job
ShutdownPre(t) ==
    /\ pc[t] = "pre" /\ op[t] = "shutdown"
    /\ lock = t
    /\ \E flags \in ShutdownFlags, agent \in AgentStates :
          LET agentRequested == "agent" \in flags
              acpiRequested == "acpi" \in flags
              agentForced == agentRequested /\ ~acpiRequested
          IN  IF ~agent /\ agentForced
              THEN /\ loc' = Set(t, "err", "AgentUnresponsive")
                   /\ Goto(t, "cleanup")
              ELSE /\ loc' = [loc EXCEPT
                                ![t].flags = flags,
                                ![t].useAgent =
                                    agent /\ (agentRequested \/ flags = {}),
                                ![t].acpi = acpiRequested \/ flags = {}]
                   /\ Goto(t, "begin")
    /\ UNCHANGED <<vm, job, lock, op, held>>

ShutdownHeld(t) ==
    /\ pc[t] = "held" /\ op[t] = "shutdown"
    /\ lock = t
    /\ IF ~IsActive
       THEN /\ loc' = Set(t, "err", "OperationInvalid")
            /\ Goto(t, "endjob")
            /\ UNCHANGED <<vm, lock>>
       ELSE /\ vm' = Entered(vm)
            /\ lock' = NoThread
            /\ Goto(t, IF loc[t].useAgent THEN "shut_agent" ELSE "shut_mon")
            /\ UNCHANGED loc
    /\ UNCHANGED <<job, op, held>>

\* a variant in which ACPI is tried after every failure of the agent
TryAcpiAlways(ret, acpi) == ret < 0

\* if (!useAgent || (ret < 0 && (acpiRequested || !flags))), for useAgent
TryAcpi(ret, acpi) == ret < 0 /\ acpi

\* ret = qemuAgentShutdown(priv->agent, agentFlag) is back
ShutdownAgent(t) ==
    /\ pc[t] = "shut_agent"
    /\ lock = NoThread
    /\ lock' = t
    /\ vm' = Exited(vm, t)
    /\ \E rc \in Replies :
          /\ loc' = [loc EXCEPT ![t].ret = rc,
                                ![t].err = IF rc = 0 THEN "none"
                                           ELSE "AgentUnresponsive"]
          /\ Goto(t, IF TryAcpi(rc, loc[t].acpi) THEN "shut_acpi" ELSE "endjob")
    /\ UNCHANGED <<job, op, held>>

\* the agent failed and ACPI may be tried:
\* qemuDomainObjEnterMonitor(driver, vm);
ShutdownAcpi(t) ==
    /\ pc[t] = "shut_acpi"
    /\ lock = t
    /\ vm' = Entered(vm)
    /\ lock' = NoThread
    /\ Goto(t, "shut_mon")
    /\ UNCHANGED <<job, op, loc, held>>

\* ret = qemuMonitorSystemPowerdown(priv->mon) is back
ShutdownMon(t) ==
    /\ pc[t] = "shut_mon"
    /\ lock = NoThread
    /\ lock' = t
    /\ vm' = Exited(vm, t)
    /\ \E rc \in Replies :
          loc' = [loc EXCEPT ![t].ret = rc,
                             ![t].err = IF rc = 0 THEN "none"
                                        ELSE "OperationFailed"]
    /\ Goto(t, "endjob")
    /\ UNCHANGED <<job, op, held>>

\* -------------------------------------------------------- process events
\* the process emits an event: it is queued for the worker pool with a
\* reference to the object (threads are put to use in the order of their
\* numbers)
EmitEvent(t) ==
    /\ pc[t] = "idle"
    /\ \A u \in Threads : u < t => pc[u] # "idle"
    /\ vm.active /\ vm.procAlive
    /\ \E e \in EventOps : op' = [op EXCEPT ![t] = e]
    /\ vm' = Ref(vm)
    /\ Goto(t, "queued")
    /\ UNCHANGED <<job, lock, loc, held>>

\* qemuProcessEventHandler: virObjectLock(vm); switch (eventType); a
\* watchdog event whose action is not dump does nothing
ProcessEventHandler(t) ==
    /\ pc[t] = "queued"
    /\ lock = NoThread
    /\ lock' = t
    /\ loc' = Set(t, "vmp", TRUE)
    /\ \E dump \in BOOLEAN :
          Goto(t, CASE op[t] = "watchdog" ->
                         IF dump THEN "abegin" ELSE "ev_end"
                    [] op[t] = "panic" -> "panic"
                    [] OTHER -> "begin")
    /\ UNCHANGED <<vm, job, op, held>>

\* qemuProcessEventHandler: if (virObjectUnref(vm)) virObjectUnlock(vm);
ProcessEventEnd(t) ==
    /\ pc[t] = "ev_end"
    /\ lock = t
    /\ vm' = Unref(vm)
    /\ lock' = NoThread
    /\ loc' = Set(t, "vmp", FALSE)
    /\ Goto(t, "done")
    /\ UNCHANGED <<job, op, held>>

\* processWatchdogEvent, action dump, after qemuDomainObjBeginAsyncJob
WatchdogHeld(t) ==
    /\ pc[t] = "aheld" /\ op[t] = "watchdog"
    /\ IF ~IsActive
       THEN /\ loc' = Set(t, "err", "OperationInvalid")
            /\ Goto(t, "wd_endjob")
            /\ UNCHANGED <<vm, job, lock, op, held>>
       ELSE doCoreDump(t, "wd_dump_mon", "wd_resume", {FALSE})

WatchdogDumpMon(t) ==
    /\ pc[t] = "wd_dump_mon"
    /\ lock = NoThread
    /\ lock' = t
    /\ vm' = Exited(vm, t)
    /\ \E rc \in Replies :
          loc' = Set(t, "err", IF rc = 0 THEN "none" ELSE "OperationFailed")
    /\ Goto(t, "wd_resume")
    /\ UNCHANGED <<job, op, held>>

\* ret = qemuProcessStartCPUs(..., QEMU_ASYNC_JOB_DUMP), whatever the dump
\* did
WatchdogResume(t) ==
    /\ pc[t] = "wd_resume"
    /\ IF EnterAsyncOK
       THEN /\ vm' = Entered(vm)
            /\ lock' = NoThread
            /\ Goto(t, "wd_resume_mon")
            /\ UNCHANGED loc
       ELSE /\ loc' = Set(t, "err", "OperationFailed")
            /\ Goto(t, "wd_endjob")
            /\ UNCHANGED <<vm, lock>>
    /\ UNCHANGED <<job, op, held>>

WatchdogResumeMon(t) ==
    /\ pc[t] = "wd_resume_mon"
    /\ lock = NoThread
    /\ lock' = t
    /\ \E rc \in Replies :
          IF rc = 0
          THEN /\ vm' = StateSet(Exited(vm, t), "running", "unpaused")
               /\ loc' = Set(t, "ret", 0)
          ELSE /\ vm' = Exited(vm, t)
               /\ loc' = Set(t, "err", "OperationFailed")
    /\ Goto(t, "wd_endjob")
    /\ UNCHANGED <<job, op, held>>

\* endjob: ignore_value(qemuDomainObjEndAsyncJob(driver, vm));
WatchdogEndjob(t) ==
    /\ pc[t] = "wd_endjob"
    /\ job' = AsyncJobEnded
    /\ held' = [held EXCEPT !.async = @ \ {t}]
    /\ vm' = Unref(vm)
    /\ Goto(t, "ev_end")
    /\ UNCHANGED <<lock, op, loc>>

\* what the domain does when its guest panics
PanicActions == {"destroy", "preserve", "coredump_destroy", "coredump_restart"}

\* processGuestPanicEvent up to qemuProcessKill, or up to the
\* qemuDomainObjBeginAsyncJob of doCoreDumpToAutoDumpPath
GuestPanicEvent(t) ==
    /\ pc[t] = "panic"
    /\ lock = t
    /\ \E action \in PanicActions :
          IF ~IsActive
          THEN /\ Goto(t, "ev_end")
               /\ UNCHANGED <<vm, loc>>
          ELSE /\ vm' = StateSet(vm, "crashed", "panicked")
               /\ loc' = [loc EXCEPT ![t].action = action,
                             ![t].event = << <<"crashed", "panicked">> >>]
               /\ Goto(t, "panic_queue")
    /\ UNCHANGED <<job, lock, op, held>>

\* if (event) qemuDomainEventQueue(driver, event); the status is saved;
\* switch (action)
GuestPanicAction(t) ==
    /\ pc[t] = "panic_queue"
    /\ lock = t
    /\ loc' = Set(t, "event", <<>>)
    /\ IF loc[t].action = "destroy"
       THEN /\ vm' = [vm EXCEPT !.beingDestroyed = TRUE]
            /\ lock' = NoThread
            /\ Goto(t, "panic_killing")
       ELSE IF loc[t].action = "preserve"
       THEN /\ Goto(t, "ev_end")
            /\ UNCHANGED <<vm, lock>>
       ELSE /\ Goto(t, "abegin")
            /\ UNCHANGED <<vm, lock>>
    /\ UNCHANGED <<job, op, held>>

\* doCoreDumpToAutoDumpPath after qemuDomainObjBeginAsyncJob
PanicDumpHeld(t) ==
    /\ pc[t] = "aheld" /\ op[t] = "panic"
    /\ IF ~IsActive
       THEN /\ loc' = Set(t, "err", "OperationInvalid")
            /\ Goto(t, "pd_endjob")
            /\ UNCHANGED <<vm, job, lock, op, held>>
       ELSE doCoreDump(t, "pd_dump_mon", "pd_endjob", {TRUE})

PanicDumpMon(t) ==
    /\ pc[t] = "pd_dump_mon"
    /\ lock = NoThread
    /\ lock' = t
    /\ vm' = Exited(vm, t)
    /\ \E rc \in Replies, io \in IoResults :
          loc' = IF rc = 0 /\ io = 0 THEN Set(t, "ret", 0)
                 ELSE Set(t, "err", "OperationFailed")
    /\ Goto(t, "pd_endjob")
    /\ UNCHANGED <<job, op, held>>

\* endjob of doCoreDumpToAutoDumpPath: ignore_value(
\* qemuDomainObjEndAsyncJob(driver, vm)); back in processGuestPanicEvent a
\* failed dump leaves through cleanup, otherwise the action falls through
\* to destroy (beingDestroyed, qemuProcessKill) or to restart
PanicDumpEndjob(t) ==
    /\ pc[t] = "pd_endjob"
    /\ lock = t
    /\ job' = AsyncJobEnded
    /\ held' = [held EXCEPT !.async = @ \ {t}]
    /\ IF loc[t].ret = 0 /\ loc[t].action = "coredump_destroy"
       THEN /\ vm' = [Unref(vm) EXCEPT !.beingDestroyed = TRUE]
            /\ lock' = NoThread
            /\ Goto(t, "panic_killing")
       ELSE /\ vm' = Unref(vm)
            /\ Goto(t, "ev_end")
            /\ UNCHANGED lock
    /\ UNCHANGED <<op, loc>>

\* processGuestPanicEvent from the return of qemuProcessKill
GuestPanicKilled(t) ==
    /\ pc[t] = "panic_killing"
    /\ lock = NoThread
    /\ lock' = t
    /\ \E killed \in BOOLEAN :
          IF ~killed
          THEN /\ vm' = [vm EXCEPT !.beingDestroyed = FALSE]
               /\ Goto(t, "ev_end")
               /\ UNCHANGED loc
          ELSE IF ~IsActive
          THEN /\ vm' = [vm EXCEPT !.beingDestroyed = FALSE,
                                   !.procAlive = FALSE]
               /\ loc' = Set(t, "err", "OperationInvalid")
               /\ Goto(t, "ev_end")
          ELSE /\ vm' = StoppedBy(ProcessStopped(
                              [vm EXCEPT !.beingDestroyed = FALSE],
                              "crashed"), t)
               /\ loc' = Set(t, "event", << <<"stopped", "crashed">> >>)
               /\ Goto(t, "panic_stopped")
    /\ UNCHANGED <<job, op, held>>

\* if (event) qemuDomainEventQueue(driver, event);
\* if (!vm->persistent) qemuDomainRemoveInactive(driver, vm);
GuestPanicStopped(t) ==
    /\ pc[t] = "panic_stopped"
    /\ lock = t
    /\ loc' = Set(t, "event", <<>>)
    /\ vm' = IF vm.persistent THEN vm ELSE Removed(vm)
    /\ Goto(t, "ev_end")
    /\ UNCHANGED <<job, lock, op, held>>

\* ------------------------------------------------ processDeviceDeletedEvent
\* qemuDomainRemoveDevice: the device leaves the live definition
DeviceRemoved(v) == [v EXCEPT !.def = 1 - @]

\* a variant in which an inactive domain leaves through the cleanup label
DeviceDeletedInactivePcCleanup == "ev_end"

\* if (!virDomainObjIsActive(vm)) goto endjob;
DeviceDeletedInactivePc == "endjob"

\* with the modify job: the device is looked up by its alias and removed
DeviceDeletedHeld(t) ==
    /\ pc[t] = "held" /\ op[t] = "devdeleted"
    /\ lock = t
    /\ \E found \in BOOLEAN :
          IF ~IsActive
          THEN /\ Goto(t, DeviceDeletedInactivePc)
               /\ UNCHANGED vm
          ELSE IF ~found
          THEN /\ Goto(t, "endjob")
               /\ UNCHANGED vm
          ELSE /\ vm' = DeviceRemoved(vm)
               /\ Goto(t, "endjob")
    /\ UNCHANGED <<job, lock, op, loc, held>>

\* --------------------------------- qemuDomainCreateXML, qemuDomainQemuAttach
\* a new, transient domain object
NewObj ==
    [VmInit(FALSE, "shutoff", FALSE, FALSE) EXCEPT !.reason = "unknown"]

\* up to virDomainObjListAdd(..., VIR_DOMAIN_OBJ_LIST_ADD_CHECK_LIVE): the
\* definition is parsed and checked; an active domain of that name is a
\* duplicate, an inactive one is reused with the new definition, otherwise
\* a new object is registered; the object comes back locked
CreateXML(t) ==
    /\ pc[t] = "idle"
    /\ \A u \in Threads : u < t => pc[u] # "idle"
    /\ \E o \in CreateOps : op' = [op EXCEPT ![t] = o]
    /\ \E ok \in BOOLEAN :
          IF ~ok
          THEN /\ loc' = Set(t, "err", "AccessDenied")
               /\ Goto(t, "done")
               /\ UNCHANGED <<vm, lock>>
          ELSE IF vm.registered /\ vm.active
          THEN /\ loc' = Set(t, "err", "OperationFailed")
               /\ Goto(t, "done")
               /\ UNCHANGED <<vm, lock>>
          ELSE /\ lock = NoThread
               /\ vm.registered \/ vm.refs = 0
               /\ lock' = t
               /\ vm' = IF vm.registered THEN AssignDef(vm) ELSE NewObj
               /\ loc' = [loc EXCEPT ![t].vmp = TRUE,
                                     ![t].added = ~vm.registered]
               /\ Goto(t, "begin")
    /\ UNCHANGED <<job, held>>

\* a variant in which the suspended event is sent for every start
StartedEventsBoth(o, st) ==
    << <<"started", "booted">>, <<"suspended", "paused">> >>

\* qemuDomainCreateXML: the started event, and a suspended event after it
\* for VIR_DOMAIN_START_PAUSED; qemuDomainQemuAttach makes no event
StartedEvents(o, st) ==
    CASE o # "create" -> <<>>
      [] st = "paused" -> << <<"started", "booted">>, <<"suspended", "paused">> >>
      [] OTHER -> << <<"started", "booted">> >>

\* if (qemuDomainObjBeginJob(driver, vm, QEMU_JOB_MODIFY) < 0) {
\*     qemuDomainRemoveInactive(driver, vm); vm = NULL; goto cleanup; }
CreateRemove(t) ==
    /\ pc[t] = "cr_remove"
    /\ lock = t
    /\ vm' = Removed(vm)
    /\ lock' = NoThread
    /\ loc' = Set(t, "vmp", FALSE)
    /\ Goto(t, "cleanup")
    /\ UNCHANGED <<job, op, held>>

\* with the modify job: qemuProcessStart / qemuProcessAttach; when it
\* fails the job is ended and the object removed
CreateHeld(t) ==
    /\ pc[t] = "held" /\ op[t] \in {"create", "qemuattach"}
    /\ lock = t
    /\ \E started \in BOOLEAN, st \in {"running", "paused"} :
          IF started
          THEN /\ vm' = ProcessStarted(vm, st, "booted")
               /\ loc' = [loc EXCEPT ![t].ret = 0,
                             ![t].event = StartedEvents(op[t], st)]
               /\ Goto(t, "endjob")
               /\ UNCHANGED <<job, held, lock>>
          ELSE /\ job' = JobEnded
               /\ held' = [held EXCEPT !.sync = @ \ {t}]
               /\ vm' = LET v == Unref(vm)
                        IN IF v.refs > 0 THEN Removed(v) ELSE v
               /\ lock' = NoThread
               /\ loc' = [loc EXCEPT ![t].vmp = FALSE,
                             ![t].err = "OperationFailed"]
               /\ Goto(t, "cleanup")
    /\ UNCHANGED op

\* ------------------------------------------------- qemuDomainRestoreFlags
\* with the modify job, qemuDomainSaveImageStartVM: qemuProcessStart with
\* VIR_QEMU_PROCESS_START_PAUSED; the started event is queued at once; a
\* domain saved while running has its CPUs started, another stays paused
RestoreHeld(t) ==
    /\ pc[t] = "held" /\ op[t] = "restore"
    /\ lock = t
    /\ \E started \in BOOLEAN, was_running \in BOOLEAN :
          IF ~started
          THEN /\ loc' = Set(t, "err", "OperationFailed")
               /\ Goto(t, "endjob")
               /\ UNCHANGED <<vm, lock>>
          ELSE IF was_running
          THEN /\ vm' = Entered(ProcessStarted(vm, "paused", "restored"))
               /\ lock' = NoThread
               /\ Goto(t, "restore_mon")
               /\ UNCHANGED loc
          ELSE /\ vm' = ProcessStarted(vm, "paused", "restored")
               /\ loc' = Set(t, "ret", 0)
               /\ Goto(t, "endjob")
               /\ UNCHANGED lock
    /\ UNCHANGED <<job, op, held>>

\* qemuProcessStartCPUs(..., VIR_DOMAIN_RUNNING_RESTORED, ...) has been
\* answered: on failure, and when virDomainSaveStatus fails afterwards,
\* qemuDomainSaveImageStartVM returns -1 with the process left as it is
RestoreMon(t) ==
    /\ pc[t] = "restore_mon"
    /\ lock = NoThread
    /\ lock' = t
    /\ \E rc \in Replies, io \in IoResults :
          IF rc = 0
          THEN /\ vm' = StateSet(Exited(vm, t), "running", "restored")
               /\ loc' = Set(t, "ret", io)
          ELSE /\ vm' = Exited(vm, t)
               /\ loc' = Set(t, "err", "OperationFailed")
    /\ Goto(t, "endjob")
    /\ UNCHANGED <<job, op, held>>

\* a variant in which a failed restore leaves the domain where it is
RestoreEndLeavesIn(t) ==
    /\ pc[t] = "restore_end"
    /\ Goto(t, "cleanup")
    /\ UNCHANGED <<vm, lock, loc, job, op, held>>

\* if (!qemuDomainObjEndJob(driver, vm)) vm = NULL;
\* else if (ret < 0 && !vm->persistent) {
\*     qemuDomainRemoveInactive(driver, vm); vm = NULL; }
RestoreEnd(t) ==
    /\ pc[t] = "restore_end"
    /\ IF loc[t].vmp /\ loc[t].ret < 0 /\ ~vm.persistent
       THEN /\ lock = t
            /\ vm' = Removed(vm)
            /\ lock' = NoThread
            /\ loc' = Set(t, "vmp", FALSE)
       ELSE UNCHANGED <<vm, lock, loc>>
    /\ Goto(t, "cleanup")
    /\ UNCHANGED <<job, op, held>>

\* ------------------------------------------------ qemuDomainMigratePrepare2
\* the definition is checked (virDomainMigratePrepare2EnsureACL) and
\* qemuMigrationPrepareDirect adds the domain to the registry, begins the
\* async job of an inbound migration, starts the process paused for the
\* incoming stream and returns with the async job left outstanding, owned
\* by no thread, until the migration is finished
MigratePrepare(t) ==
    /\ pc[t] = "idle"
    /\ \A u \in Threads : u < t => pc[u] # "idle"
    /\ op' = [op EXCEPT ![t] = "migrate_prepare"]
    /\ \E ok \in BOOLEAN, started \in BOOLEAN :
          IF ~ok
          THEN /\ loc' = Set(t, "err", "AccessDenied")
               /\ UNCHANGED <<vm, job>>
          ELSE IF vm.registered /\ vm.active
          THEN /\ loc' = Set(t, "err", "OperationFailed")
               /\ UNCHANGED <<vm, job>>
          ELSE /\ lock = NoThread
               /\ vm.registered \/ vm.refs = 0
               /\ CanBeginAsyncJob
               /\ IF started
                  THEN /\ vm' = Ref(ProcessStarted(
                                   IF vm.registered THEN AssignDef(vm)
                                   ELSE NewObj, "paused", "migration"))
                       /\ job' = AsyncJobTaken(NoThread, "migration_in")
                       /\ loc' = Set(t, "ret", 0)
                  ELSE /\ loc' = Set(t, "err", "OperationFailed")
                       /\ UNCHANGED <<vm, job>>
    /\ Goto(t, "done")
    /\ UNCHANGED <<lock, held>>

\* ------------------------------------------------------- the hypervisor
\* the process dies on its own
ProcessDies ==
    /\ vm.active /\ vm.procAlive
    /\ vm' = [vm EXCEPT !.procAlive = FALSE]
    /\ UNCHANGED <<job, lock, pc, op, loc, held>>

\* the monitor-EOF callback: under the object lock it stops the domain
\* whose process died, unless the death is expected (beingDestroyed); a
\* transient domain leaves the registry
MonitorEOF ==
    /\ lock = NoThread
    /\ vm.registered /\ vm.active /\ ~vm.procAlive /\ ~vm.beingDestroyed
    /\ vm' = LET v == ProcessStopped(vm, "crashed")
             IN IF v.persistent THEN v ELSE Removed(v)
    /\ UNCHANGED <<job, lock, pc, op, loc, held>>

\* history: a step of thread t records the domain when t enters an entry
\* point, drops the record once t holds a job or has ended, and carries
\* what anyone else changes into the records of the other threads
EntryKept(t) ==
    [u \in Threads |->
        IF u = t
        THEN IF pc[t] = "idle"
             THEN IF op'[t] \in ApiOps THEN Observed(vm) ELSE NoEntry
             ELSE IF pc'[t] = "gone" \/ t \in held'.sync \cup held'.async
             THEN NoEntry
             ELSE entry[t]
        ELSE IF entry[u] = NoEntry
        THEN NoEntry
        ELSE [f \in DOMAIN entry[u] |->
                 IF Observed(vm')[f] # Observed(vm)[f]
                 THEN Observed(vm')[f] ELSE entry[u][f]]]

\* history: the events the step of thread t hands to the event queue
Handed(t) ==
    IF t \in Threads /\ pc'[t] # "gone"
          /\ Len(loc'[t].event) < Len(loc[t].event)
    THEN loc[t].event ELSE <<>>

\* history: with a listener registered, the calls, their results and the
\* events are recorded in the order in which they happen
LogKept(t) ==
    IF ~log.on \/ t \notin Threads
    THEN log
    ELSE [log EXCEPT
            !.calls = IF pc[t] = "idle" THEN Append(@, op'[t]) ELSE @,
            !.rets = IF pc[t] # "done" /\ pc'[t] = "done"
                     THEN Append(@, loc'[t].ret) ELSE @,
            !.events = @ \o Handed(t)]

Kept(t) == entry' = EntryKept(t) /\ log' = LogKept(t)

\* ------------------------------------------------------------------ Next
Step(t) ==
    \/ Call(t) /\ Kept(t)
    \/ Acl(t) /\ Kept(t)
    \/ BeginJob(t) /\ Kept(t)
    \/ WaitJobAcquire(t) /\ Kept(t)
    \/ WaitJobTimeout(t) /\ Kept(t)
    \/ EndJob(t) /\ Kept(t)
    \/ Cleanup(t) /\ Kept(t)
    \/ Return(t) /\ Kept(t)
    \/ SuspendPre(t) /\ Kept(t)
    \/ SuspendHeld(t) /\ Kept(t)
    \/ SuspendMon(t) /\ Kept(t)
    \/ DestroyKill(t) /\ Kept(t)
    \/ DestroyKilling(t) /\ Kept(t)
    \/ DestroyHeld(t) /\ Kept(t)
    \/ AttachDeviceHeld(t) /\ Kept(t)
    \/ DetachDeviceHeld(t) /\ Kept(t)
    \/ MigrationTakesOver(t) /\ Kept(t)
    \/ CoreDumpHeld(t) /\ Kept(t)
    \/ CoreDumpStopMon(t) /\ Kept(t)
    \/ CoreDumpCore(t) /\ Kept(t)
    \/ CoreDumpMon(t) /\ Kept(t)
    \/ CoreDumpEndjob(t) /\ Kept(t)
    \/ CoreDumpResetMon(t) /\ Kept(t)
    \/ CoreDumpResume(t) /\ Kept(t)
    \/ CoreDumpResumeMon(t) /\ Kept(t)
    \/ EmitEvent(t) /\ Kept(t)
    \/ ProcessEventHandler(t) /\ Kept(t)
    \/ ProcessEventEnd(t) /\ Kept(t)
    \/ WatchdogHeld(t) /\ Kept(t)
    \/ WatchdogDumpMon(t) /\ Kept(t)
    \/ WatchdogResume(t) /\ Kept(t)
    \/ WatchdogResumeMon(t) /\ Kept(t)
    \/ WatchdogEndjob(t) /\ Kept(t)
    \/ GuestPanicEvent(t) /\ Kept(t)
    \/ GuestPanicKilled(t) /\ Kept(t)
    \/ SnapshotCreatePre(t) /\ Kept(t)
    \/ SnapshotHeld(t) /\ Kept(t)
    \/ SnapshotStopMon(t) /\ Kept(t)
    \/ SnapshotMemory(t) /\ Kept(t)
    \/ SnapshotMemoryMon(t) /\ Kept(t)
    \/ SnapshotCreateDiskActive(t) /\ Kept(t)
    \/ SnapshotDiskMon(t) /\ Kept(t)
    \/ SnapshotEndjob(t) /\ Kept(t)
    \/ SnapshotResumeMon(t) /\ Kept(t)
    \/ SnapshotEnd(t) /\ Kept(t)
    \/ SnapshotCreateTail(t) /\ Kept(t)
    \/ UndefineFlags(t) /\ Kept(t)
    \/ RevertPre(t) /\ Kept(t)
    \/ RevertHeld(t) /\ Kept(t)
    \/ RevertStopMon(t) /\ Kept(t)
    \/ RevertLoadMon(t) /\ Kept(t)
    \/ RevertTouchUp(t) /\ Kept(t)
    \/ RevertStartMon(t) /\ Kept(t)
    \/ RevertTail(t) /\ Kept(t)
    \/ OpenGraphicsPre(t) /\ Kept(t)
    \/ OpenGraphicsHeld(t) /\ Kept(t)
    \/ OpenGraphicsMon(t) /\ Kept(t)
    \/ ShutdownPre(t) /\ Kept(t)
    \/ ShutdownHeld(t) /\ Kept(t)
    \/ ShutdownAgent(t) /\ Kept(t)
    \/ ShutdownAcpi(t) /\ Kept(t)
    \/ ShutdownMon(t) /\ Kept(t)
    \/ BeginAsyncJob(t) /\ Kept(t)
    \/ WaitAsyncAcquire(t) /\ Kept(t)
    \/ WaitAsyncTimeout(t) /\ Kept(t)
    \/ EndAsyncJob(t) /\ Kept(t)
    \/ SavePre(t) /\ Kept(t)
    \/ SaveHeld(t) /\ Kept(t)
    \/ SaveStopMon(t) /\ Kept(t)
    \/ SaveMem(t) /\ Kept(t)
    \/ SaveMon(t) /\ Kept(t)
    \/ SaveEndjob(t) /\ Kept(t)
    \/ SaveResumeMon(t) /\ Kept(t)
    \/ ManagedSaveFlag(t) /\ Kept(t)
    \/ CreateXML(t) /\ Kept(t)
    \/ CreateRemove(t) /\ Kept(t)
    \/ CreateHeld(t) /\ Kept(t)
    \/ RestoreHeld(t) /\ Kept(t)
    \/ RestoreMon(t) /\ Kept(t)
    \/ RestoreEnd(t) /\ Kept(t)
    \/ PanicDumpHeld(t) /\ Kept(t)
    \/ PanicDumpMon(t) /\ Kept(t)
    \/ PanicDumpEndjob(t) /\ Kept(t)
    \/ DeviceDeletedHeld(t) /\ Kept(t)
    \/ MigratePrepare(t) /\ Kept(t)
    \/ AbortJobHeld(t) /\ Kept(t)
    \/ AbortJobMon(t) /\ Kept(t)
    \/ JobInfoRead(t) /\ Kept(t)
    \/ EventQueue(t) /\ Kept(t)
    \/ ResumeHeld(t) /\ Kept(t)
    \/ ResumeMon(t) /\ Kept(t)
    \/ GuestPanicAction(t) /\ Kept(t)
    \/ GuestPanicStopped(t) /\ Kept(t)
    \/ BlockInfoPre(t) /\ Kept(t)
    \/ BlockInfoHeld(t) /\ Kept(t)
    \/ BlockInfoMon(t) /\ Kept(t)
    \/ BlockInfoCleanup(t) /\ Kept(t)

Next ==
    \/ \E t \in Threads : Step(t)
    \/ ProcessDies /\ Kept(NoThread)
    \/ MonitorEOF /\ Kept(NoThread)

Spec == Init /\ [][Next]_vars

\* ---------------------------------------- one client, calls made in turn
\* A client with a registered event callback makes up to MaxCalls calls on
\* the domain, each after the previous one has returned; nothing else
\* happens to the domain.
MaxCalls == 4

ScenarioOps == {"suspend", "resume", "destroy"}

Quiet == \A u \in Threads : pc[u] \in {"idle", "gone"}

InitScenario ==
    /\ \E reg \in BOOLEAN :
          vm = IF reg THEN VmInit(FALSE, "shutoff", TRUE, FALSE)
               ELSE [NewObj EXCEPT !.registered = FALSE, !.refs = 0]
    /\ job = JobInit
    /\ lock = NoThread
    /\ pc = [t \in Threads |-> "idle"]
    /\ op = [t \in Threads |-> "none"]
    /\ loc = [t \in Threads |-> LocInit]
    /\ held = [sync |-> {}, async |-> {}, late |-> {}, blocked |-> {},
               gone |-> {}]
    /\ entry = [t \in Threads |-> NoEntry]
    /\ log = LogInit(TRUE)

ScenarioCall(t) ==
    /\ Quiet /\ Len(log.calls) < MaxCalls
    /\ Call(t)
    /\ op'[t] \in ScenarioOps

ScenarioCreate(t) ==
    /\ Quiet /\ Len(log.calls) < MaxCalls
    /\ CreateXML(t)
    /\ op'[t] = "create"

\* the worker that served a call serves the next one
Recycle(t) ==
    /\ pc[t] = "gone"
    /\ Goto(t, "idle")
    /\ UNCHANGED <<vm, job, lock, op, loc, held>>

StepScenario(t) ==
    \/ ScenarioCall(t) /\ Kept(t)
    \/ ScenarioCreate(t) /\ Kept(t)
    \/ Recycle(t) /\ Kept(t)
    \/ Acl(t) /\ Kept(t)
    \/ BeginJob(t) /\ Kept(t)
    \/ EndJob(t) /\ Kept(t)
    \/ Cleanup(t) /\ Kept(t)
    \/ EventQueue(t) /\ Kept(t)
    \/ Return(t) /\ Kept(t)
    \/ CreateHeld(t) /\ Kept(t)
    \/ SuspendPre(t) /\ Kept(t)
    \/ SuspendHeld(t) /\ Kept(t)
    \/ SuspendMon(t) /\ Kept(t)
    \/ ResumeHeld(t) /\ Kept(t)
    \/ ResumeMon(t) /\ Kept(t)
    \/ DestroyKill(t) /\ Kept(t)
    \/ DestroyKilling(t) /\ Kept(t)
    \/ DestroyHeld(t) /\ Kept(t)

NextScenario == \E t \in Threads : StepScenario(t)

SpecScenario == InitScenario /\ [][NextScenario]_vars

\* ------------------------------------------------------------ properties
TypeOK ==
    /\ lock \in Threads \cup {NoThread}
    /\ vm.refs \in 0..(NThreads * 3 + 1)

\* the positions in which a thread is inside a channel guard (between
\* enter and exit, the object lock released)
GuardPcs ==
    {"susp_mon", "save_stop_mon", "save_mon", "save_resume_mon",
     "dump_stop_mon", "dump_mon", "dump_reset_mon", "dump_resume_mon",
     "wd_dump_mon", "wd_resume_mon", "snap_stop_mon", "snap_mem_mon",
     "snap_disk_mon", "snap_resume_mon", "rev_stop_mon", "rev_load_mon",
     "rev_start_mon", "og_mon", "shut_agent", "shut_mon", "pd_dump_mon",
     "abort_mon", "resume_mon", "bi_mon", "restore_mon",
     "snapi_stop_mon", "snapi_mon", "snapi_resume_mon", "bj_mon",
     "bj_poll_mon", "qry_mon", "start_mon"}

\* the positions of a thread whose entry point has returned
ReturnedPcs == {"done", "gone"}

\* ------------------------------------------- waiting for the sync slot
\* Clients resume the domain and open graphics connections on it: each
\* call takes the modify job and talks to the hypervisor inside the monitor
\* guard, so that a hypervisor that does not answer keeps the job held.
WaitOps == {"resume", "opengraphics"}

StepWait(t) ==
    \/ Call(t) /\ op'[t] \in WaitOps /\ Kept(t)
    \/ Acl(t) /\ Kept(t)
    \/ BeginJob(t) /\ Kept(t)
    \/ WaitJobAcquire(t) /\ Kept(t)
    \/ WaitJobTimeout(t) /\ Kept(t)
    \/ EndJob(t) /\ Kept(t)
    \/ Cleanup(t) /\ Kept(t)
    \/ EventQueue(t) /\ Kept(t)
    \/ Return(t) /\ Kept(t)
    \/ ResumeHeld(t) /\ Kept(t)
    \/ ResumeMon(t) /\ Kept(t)
    \/ OpenGraphicsPre(t) /\ Kept(t)
    \/ OpenGraphicsHeld(t) /\ Kept(t)
    \/ OpenGraphicsMon(t) /\ Kept(t)

NextWait == \E t \in Threads : StepWait(t)

\* a thread that is running (not waiting for a client, for the hypervisor
\* or for the slot) takes its next step
Runs(t) ==
    /\ pc[t] \notin GuardPcs \cup {"idle", "wait", "gone"}
    /\ StepWait(t)

\* ... and the timed wait on the condition ends when its time is up: the
\* thread gets the object lock back although others take and release it
SpecWait ==
    /\ Init
    /\ [][NextWait]_vars
    /\ \A t \in Threads :
          WF_vars(Runs(t)) /\ SF_vars(WaitJobTimeout(t) /\ Kept(t))

\* the operations that need an active domain
ActiveOps ==
    {"suspend", "shutdown", "save", "managedsave", "dump", "snapshot",
     "opengraphics", "watchdog", "destroy"}

\* the step is taken by thread t
Acting(t) == pc'[t] # pc[t]

\* the step changes the lifecycle state of the domain
LifecycleChanged == vm'.state # vm.state \/ vm'.active # vm.active

\* the step writes a configuration or status field of the domain
ConfigWritten ==
    \/ vm'.persistent # vm.persistent
    \/ vm'.hasManagedSave # vm.hasManagedSave
    \/ vm'.def # vm.def
    \/ vm'.current_snapshot # vm.current_snapshot

\* C1: at most one thread holds the synchronous job of the domain at any
\* instant, and the slot is taken for as long as a thread holds it.
C1_SyncJobExclusive ==
    /\ Cardinality(held.sync) <= 1
    /\ held.sync # {} => job.active # "none"

\* a thread is inside a channel guard with the synchronous job while
\* another thread waits for the slot
C1_Witness ==
    \E t, u \in Threads :
        /\ t \in held.sync /\ pc[t] \in GuardPcs
        /\ u # t /\ pc[u] = "wait"

\* C2: an operation that acquired the synchronous job has released it by
\* the time it returns, on every path.
C2_SyncJobReleasedOnReturn ==
    \A t \in Threads : pc[t] \in ReturnedPcs => t \notin held.sync

\* C3: an operation that acquired the async job has released it by the
\* time it returns, on every path, a failed resume included.
C3_AsyncJobReleasedOnReturn ==
    \A t \in Threads : pc[t] \in ReturnedPcs => t \notin held.async

\* C4: an operation that looked the domain up has unlocked it by the time
\* it returns, on every path, a failed permission check included.
C4_UnlockedOnReturn ==
    \A t \in Threads : pc[t] \in ReturnedPcs => lock # t

\* C5: every change of the lifecycle state of the domain made by a driver
\* thread is made while that thread holds a job on the domain.
C5_TransitionsUnderJob ==
    [][\A t \in Threads : Acting(t) /\ LifecycleChanged => HoldsJob(t)]_vars

\* C6: the persistent flag, the managed-save flag, the definition and the
\* current snapshot are written only by a thread that holds both the
\* object lock and a job on the domain.
C6_ConfigWrittenUnderLockAndJob ==
    [][\A t \in Threads :
          Acting(t) /\ ConfigWritten => lock = t /\ HoldsJob(t)]_vars

\* C7: an operation that needs an active domain and whose job began on an
\* inactive domain enters no channel guard, changes no lifecycle state and
\* returns a failure.
C7_InactiveAfterBeginFails ==
    [][\A t \in Threads :
          Acting(t) /\ t \in held.late /\ op[t] \in ActiveOps
          => /\ pc'[t] \notin GuardPcs
             /\ ~LifecycleChanged
             /\ pc'[t] = "done" => loc'[t].ret # 0]_vars

\* C8: a thread that came back from a channel guard to an inactive domain
\* enters no further channel guard, changes no lifecycle state and returns
\* OperationInvalid.
C8_InactiveAfterGuardFails ==
    [][\A t \in Threads :
          Acting(t) /\ t \in vm.stale
          => /\ pc'[t] \notin GuardPcs
             /\ ~LifecycleChanged
             /\ pc'[t] = "done" => loc'[t].err = "OperationInvalid"]_vars

C10_MaskDecidesBeginJob ==
    [][\A t \in Threads :
          Acting(t) /\ pc[t] = "begin"
          /\ job.asyncJob # "none" /\ job.active = "none"
          => (pc'[t] = "held" <=> JobOf(op[t]) \in job.mask)]_vars

\* a suspend holds the synchronous job during the memory phase of a
\* snapshot, whose mask was widened to let it in
C10_Witness ==
    \E t \in Threads :
        /\ op[t] = "suspend" /\ pc[t] = "held"
        /\ job.asyncJob = "snapshot" /\ job.mask = SnapshotMemoryMask
        /\ job.active = "suspend"


\* C11: once an operation that stopped a transient domain (destroy, save,
\* crash dump, snapshot revert, guest-panic destroy) has returned, the
\* domain is no longer in the registry.
C11_TransientRemovedOnReturn ==
    \A t \in Threads :
        pc[t] \in ReturnedPcs /\ vm.stopper = t => ~vm.registered

\* C12: a persistent domain is never removed from the registry by a stop
\* or by a failed create, start or attach (only undefine unregisters it);
\* when it stops it is left registered, in state shutoff.
C12_PersistentStaysRegistered ==
    [][vm.registered /\ vm.persistent
       /\ ~(\E t \in Threads : Acting(t) /\ op[t] = "undefine")
       => /\ vm'.registered
          /\ (vm.active /\ ~vm'.active => vm'.state = "shutoff")]_vars

\* C13: a domain object is removed from the registry (here: by a step of
\* an entry point or event handler of the driver) only at a moment when no
\* synchronous and no asynchronous job is outstanding on it.
C13_RemovedWithoutJob ==
    [][(\E t \in Threads : Acting(t)) /\ vm.registered /\ ~vm'.registered
       => job'.active = "none" /\ job'.asyncJob = "none"]_vars

\* the step with which a save that took its async job leaves
\* qemuDomainSaveInternal: the job is ended (or was ended on removal)
SaveReturns(t) ==
    /\ Acting(t) /\ op[t] \in SaveOps
    /\ pc[t] \in {"aendjob", "save_mon"} /\ pc'[t] = "cleanup"

\* C14 as stated: when a save returns, either it succeeded and the process
\* is stopped with status shutoff (saved), or it returned an error and the
\* domain is still active, running or paused.
C14_SavedOrStillActive ==
    [][\A t \in Threads : SaveReturns(t) =>
          \/ /\ loc'[t].ret = 0
             /\ ~vm'.active /\ vm'.state = "shutoff" /\ vm'.reason = "saved"
          \/ /\ loc'[t].ret # 0
             /\ vm'.active /\ vm'.state \in {"running", "paused"}]_vars

\* C14: a save stops the process only in the step that commits it, which
\* leaves the domain in shutoff (saved) and is the only step that sets the
\* result to success; after it the save changes the state no more; before
\* it the save only pauses the guest (reason save) or, after a failure,
\* resumes it (reason save canceled).
C14_SaveStopsOnlyOnCommit ==
    [][\A t \in Threads : Acting(t) /\ op[t] \in SaveOps =>
          /\ (loc[t].ret # 0 /\ loc'[t].ret = 0
                 => ~vm'.active /\ vm'.state = "shutoff"
                    /\ vm'.reason = "saved")
          /\ (vm.active /\ ~vm'.active => loc'[t].ret = 0)
          /\ (loc[t].ret = 0 /\ pc[t] # "done"
                 => loc'[t].ret = 0 /\ ~LifecycleChanged)
          /\ (loc[t].ret # 0 /\ loc'[t].ret # 0 /\ vm'.state # vm.state
                 => \/ vm'.state = "paused" /\ vm'.reason = "save"
                    \/ vm'.state = "running"
                       /\ vm'.reason = "save_canceled")]_vars

\* a save failed, resumed the guest and has returned its error
C14_Witness ==
    \E t \in Threads :
        /\ pc[t] = "done" /\ op[t] = "save"
        /\ loc[t].ret # 0 /\ loc[t].err = "OperationFailed"
        /\ vm.active /\ vm.state = "running" /\ vm.reason = "save_canceled"

\* a save has committed and returned success
C14_WitnessCommitted ==
    \E t \in Threads :
        /\ pc[t] = "done" /\ op[t] = "save" /\ loc[t].ret = 0
        /\ ~vm.active /\ vm.state = "shutoff" /\ vm.reason = "saved"

\* C15: if a save paused a running guest and then fails while the guest is
\* still active, it resumes the guest CPUs before returning, whatever
\* save-running / save-paused flags the caller passed, and the error it
\* reports stays the original failure.
C15_FailedSaveResumes ==
    [][\A t \in Threads : Acting(t) /\ op[t] \in SaveOps =>
          /\ (/\ pc[t] = "save_endjob" /\ loc[t].ret # 0
              /\ vm.active /\ vm.state = "paused" /\ vm.reason = "save"
              => pc'[t] = "save_resume_mon")
          /\ (pc[t] = "save_resume_mon" => loc'[t].err = loc[t].err)]_vars

\* the positions in which a destroying thread has released the object lock:
\* inside qemuProcessKill and waiting in qemuDomainObjBeginJob
DestroyUnlockedPcs == {"killing", "wait"}

\* C16: in destroy the being-destroyed marker is set before the thread
\* first releases the object lock, so that while destroy has the lock
\* released (killing the process, waiting for the destroy job) a monitor
\* EOF handler finds the marker set on the domain it would stop.
C16_MarkerSetWhileUnlocked ==
    \A t \in Threads :
        /\ op[t] = "destroy" /\ pc[t] \in DestroyUnlockedPcs
        /\ lock = NoThread /\ vm.active
        => vm.beingDestroyed

\* C17: the background handlers for watchdog, guest-panic and
\* device-deleted events have released every job they acquired by the
\* time they return to qemuProcessEventHandler, on every path.
C17_HandlersReleaseJobs ==
    \A t \in Threads :
        op[t] \in EventOps /\ pc[t] \in {"ev_end", "done"}
            => ~HoldsJob(t) /\ job.owner # t /\ job.asyncOwner # t

\* handlers that took a job have returned: a watchdog dump that resumed
\* the guest, beside a device-deleted handler that removed its device
C17_Witness ==
    \E t, u \in Threads :
        /\ op[t] = "watchdog" /\ pc[t] = "done" /\ loc[t].ret = 0
        /\ op[u] = "devdeleted" /\ pc[u] = "ev_end" /\ vm.def = 1

\* C18: an entry point that returns an error without ever having held a
\* job (failed lookup, failed permission check, failed job acquisition)
\* leaves the domain's state, markers, process and snapshot metadata as it
\* found them.
C18_FailedBeforeJobChangesNothing ==
    \A t \in Threads :
        pc[t] = "done" /\ op[t] \in ApiOps /\ loc[t].ret # 0
        /\ loc[t].err \in {"NotFound", "AccessDenied", "TimeOut"}
        /\ entry[t] # NoEntry
            => Observed(vm) = entry[t]

\* the step qemuDomainSuspend takes once it holds its job
SuspendActs(t) == Acting(t) /\ op[t] = "suspend" /\ pc[t] = "held"

\* C19 as stated: suspending a domain that is already paused for the
\* same reason succeeds, leaves state and reason unchanged, sends no
\* second stop command and makes no second suspended event.
C19_PausedSuspendSucceeds ==
    [][\A t \in Threads :
          SuspendActs(t) /\ IsActive /\ vm.state = "paused"
          /\ vm.reason = SuspendReason
              => /\ loc'[t].ret = 0
                 /\ vm' = vm
                 /\ pc'[t] = "endjob"
                 /\ loc'[t].event = <<>>]_vars

\* C19 amended: suspending a domain that is already paused for the same
\* reason leaves state and reason unchanged, sends no second stop command
\* and makes no second suspended event; it either succeeds or, when the
\* status file cannot be written, fails without reporting a lifecycle
\* error.
C19_PausedSuspendIsNoOp ==
    [][\A t \in Threads :
          SuspendActs(t) /\ IsActive /\ vm.state = "paused"
          /\ vm.reason = SuspendReason
              => /\ loc'[t].ret = 0 \/ loc'[t] = loc[t]
                 /\ loc'[t].err = "none"
                 /\ vm' = vm
                 /\ pc'[t] = "endjob"
                 /\ loc'[t].event = <<>>]_vars

\* a second suspend has found the guest paused by the first one and
\* succeeded without an event
C19_Witness ==
    \E t \in Threads :
        /\ op[t] = "suspend" /\ pc[t] = "endjob"
        /\ loc[t].ret = 0 /\ loc[t].event = <<>>
        /\ vm.active /\ vm.state = "paused" /\ vm.reason = "user"
        /\ SuspendReason = "user"
        /\ \E u \in Threads \ {t} :
              op[u] = "suspend" /\ pc[u] = "done" /\ loc[u].ret = 0

\* C20: suspending a domain that is already paused for a different reason
\* succeeds and updates the pause reason to the requested one.
C20_PausedSuspendUpdatesReason ==
    [][\A t \in Threads :
          SuspendActs(t) /\ IsActive /\ vm.state = "paused"
          /\ vm.reason # SuspendReason
              => /\ vm'.state = "paused"
                 /\ vm'.reason = SuspendReason
                 /\ loc'[t].ret = 0 \/ loc'[t] = loc[t]]_vars

\* the step qemuDomainAbortJob takes once it holds its abort job
AbortActs(t) == Acting(t) /\ op[t] = "abortjob" /\ pc[t] = "held"

\* C21: an abort request on a domain whose outstanding async job is an
\* inbound migration fails with OperationInvalid: the cancellation flag is
\* not set and no cancel command goes to the monitor.
C21_InboundMigrationNotAborted ==
    [][\A t \in Threads :
          /\ AbortActs(t) /\ job.asyncJob = "migration_in"
                => /\ loc'[t].err = "OperationInvalid"
                   /\ loc'[t].ret # 0
                   /\ pc'[t] = "endjob"
                   /\ job'.asyncAbort = job.asyncAbort
                   /\ vm' = vm
          /\ Acting(t) /\ op[t] = "abortjob" /\ job.asyncJob = "migration_in"
                => /\ pc'[t] # "abort_mon"
                   /\ ~job'.asyncAbort
                   /\ pc'[t] = "done" => loc'[t].ret # 0]_vars

\* an abort request has held its job on a domain with an inbound
\* migration and been refused
C21_Witness ==
    \E t \in Threads :
        /\ op[t] = "abortjob" /\ pc[t] = "endjob"
        /\ loc[t].err = "OperationInvalid"
        /\ vm.active /\ job.asyncJob = "migration_in" /\ ~job.asyncAbort

\* C22 as stated: an abort request on an active domain with any async job
\* other than an inbound migration sets the cancellation flag and enters
\* the monitor for the cancel command, holding the abort job.
C22_AbortCancelsAnyJob ==
    [][\A t \in Threads :
          AbortActs(t) /\ IsActive
          /\ job.asyncJob \notin {"none", "migration_in"}
              => /\ job'.asyncAbort
                 /\ pc'[t] = "abort_mon"
                 /\ job'.active = "abort" /\ job'.owner = t]_vars

\* C22 amended: an abort request on an active domain with an async job
\* other than an inbound migration or a memory-only dump sets the
\* cancellation flag and then sends the cancel command through a monitor
\* guard, both while holding the abort job, which it has released when
\* the request returns; on a memory-only dump it fails with
\* OperationInvalid and sets nothing.
C22_AbortCancelsJob ==
    [][\A t \in Threads :
          /\ AbortActs(t) /\ IsActive
             /\ job.asyncJob \notin {"none", "migration_in"}
                => IF job.dump_memory_only
                   THEN /\ loc'[t].err = "OperationInvalid"
                        /\ pc'[t] = "endjob"
                        /\ job' = job /\ vm' = vm
                   ELSE /\ job'.asyncAbort
                        /\ pc'[t] = "abort_mon"
                        /\ lock' = NoThread
          /\ Acting(t) /\ op[t] = "abortjob" /\ pc'[t] = "abort_mon"
                => /\ job'.asyncAbort
                   /\ job'.active = "abort" /\ job'.owner = t
                   /\ t \in held'.sync
          /\ Acting(t) /\ op[t] = "abortjob" /\ pc'[t] = "done"
                => /\ t \notin held'.sync
                   /\ job'.owner # t]_vars

\* the cancel command is in the monitor for a job that is being aborted
C22_Witness ==
    \E t \in Threads :
        /\ op[t] = "abortjob" /\ pc[t] = "abort_mon"
        /\ job.asyncAbort /\ job.active = "abort" /\ job.owner = t
        /\ job.asyncJob \notin {"none", "migration_in"}

\* C23: querying the progress of the async job (job info, job stats)
\* changes no field of the job controller of the domain.
C23_JobQueryReadsOnly ==
    [][\A t \in Threads :
          Acting(t) /\ op[t] \in JobQueryOps => job' = job]_vars

\* C24: the state of a domain becomes crashed only in response to a
\* guest-panic event for which no destructive action (destroy,
\* coredump-destroy) is configured.
C24_CrashedOnlyWithoutDestroy ==
    [][vm.state # "crashed" /\ vm'.state = "crashed"
          => \E t \in Threads :
                /\ Acting(t) /\ op[t] = "panic"
                /\ loc'[t].action \notin {"destroy", "coredump_destroy"}]_vars

\* C26: no thread hands a lifecycle event to the event queue while it holds
\* the lock of the domain object; every operation passes its events on only
\* after it has unlocked the object.
C26_EventsQueuedUnlocked ==
    [][\A t \in Threads : Handed(t) # <<>> => lock # t]_vars

\* C25: when start, suspend, resume and destroy are called in turn on one
\* domain, each succeeding and nothing else happening, the lifecycle events
\* queued are started/booted, suspended/paused, resumed/unpaused and
\* stopped/destroyed, in that order, each exactly once.
C25_ScenarioEvents ==
    log.calls = <<"create", "suspend", "resume", "destroy">>
        /\ log.rets = <<0, 0, 0, 0>>
    => log.events = << <<"started", "booted">>, <<"suspended", "paused">>,
                       <<"resumed", "unpaused">>, <<"stopped", "destroyed">> >>

C25_Witness ==
    /\ log.calls = <<"create", "suspend", "resume", "destroy">>
    /\ log.rets = <<0, 0, 0, 0>>
    /\ Len(log.events) = 4
    /\ ~vm.active


\* the step in which thread t sends the power-down through the monitor
PowerdownSent(t) ==
    op[t] = "shutdown" /\ pc[t] # "shut_mon" /\ pc'[t] = "shut_mon"

\* C27: in a graceful shutdown the monitor power-down is sent only after
\* the agent attempt has finished or the agent was found unavailable, and
\* exactly when the agent was not used, or the agent attempt failed and the
\* caller's flags are acpi-requested or empty; with agent-requested alone
\* it is never sent.
C27_PowerdownWhenAgentNotEnough ==
    [][\A t \in Threads :
          LET acpiOrEmpty == "acpi" \in loc[t].flags \/ loc[t].flags = {}
          IN  /\ PowerdownSent(t) =>
                    /\ \/ pc[t] = "held" /\ ~loc[t].useAgent
                       \/ pc[t] = "shut_acpi" /\ loc[t].useAgent
                             /\ loc[t].ret < 0 /\ acpiOrEmpty
                    /\ loc[t].flags # {"agent"}
              /\ op[t] = "shutdown" /\ pc[t] = "held" /\ pc'[t] # "held"
                    /\ IsActive /\ ~loc[t].useAgent
                 => pc'[t] = "shut_mon"
              /\ pc[t] = "shut_agent" /\ pc'[t] # "shut_agent"
                 => IF loc'[t].ret < 0 /\ acpiOrEmpty
                    THEN pc'[t] = "shut_acpi" ELSE pc'[t] = "endjob"
              /\ pc[t] = "shut_acpi" /\ pc'[t] # "shut_acpi"
                 => pc'[t] = "shut_mon"]_vars

C27_Witness ==
    \E t, u \in Threads :
        /\ pc[t] = "shut_mon" /\ loc[t].useAgent /\ loc[t].flags = {"agent", "acpi"}
        /\ op[u] = "shutdown" /\ pc[u] = "done" /\ loc[u].flags = {"agent"}
        /\ loc[u].useAgent /\ loc[u].ret < 0

\* C28: whenever a thread is inside a monitor or agent channel guard, that
\* thread holds a sync job or the async job on that domain.
C28_GuardImpliesJob ==
    \A t \in Threads :
        pc[t] \in GuardPcs =>
            \/ job.active # "none" /\ job.owner = t
            \/ job.asyncJob # "none" /\ job.asyncOwner = t

C28_Witness ==
    \E t, u \in Threads :
        /\ pc[t] \in {"shut_agent", "shut_mon"}
        /\ job.active = "modify" /\ job.owner = t
        /\ op[u] = "dump" /\ pc[u] = "done" /\ loc[u].ret = 0

\* the step in which thread t reads or writes the domain object or its
\* lock: it changes the object or the lock, or reads the definition
ObjectUsed(t) ==
    /\ Acting(t) /\ pc'[t] # "gone"
    /\ \/ vm' # vm
       \/ lock' # lock
       \/ loc'[t].src # loc[t].src

\* C29: after end_job or end_async_job has returned false to a thread, the
\* thread never again reads, writes or unlocks that domain object.
C29_GoneObjectNotUsed ==
    [][\A t \in Threads : t \in held.gone => ~ObjectUsed(t)]_vars

\* C30: a begin_job call that waits behind a job which is never released
\* returns TimeOut after the bounded wait: it does not acquire the slot and
\* does not wait forever.
C30_WaitEndsInTimeOut ==
    \A t \in Threads :
        [](pc[t] = "wait" /\ [](job.active # "none")
              => <>(/\ pc[t] = "done" /\ loc[t].err = "TimeOut"
                    /\ t \notin held.sync /\ job.owner # t))

C30_Witness ==
    \E t, u \in Threads :
        /\ pc[t] = "done" /\ loc[t].err = "TimeOut"
        /\ job.active # "none" /\ job.owner = u /\ pc[u] \in GuardPcs

\* the kinds of the events a revert has made so far
RevertEvents(t) ==
    LET all == loc[t].queued \o loc[t].event
    IN  [i \in 1..Len(all) |-> all[i][1]]

\* C31: a revert to a snapshot emits lifecycle events according to the
\* states before and after: inactive to inactive none, inactive to running
\* started, inactive to paused started then suspended, running to inactive
\* stopped, running to running none, running to paused suspended, paused to
\* inactive stopped, paused to running resumed, paused to paused none.
\* (Checked on the reverts that make a single transition: those that stop
\* a running process and start a new one have already queued the stopped
\* event and are left out.)
C31_RevertEvents ==
    \A t \in Threads :
        op[t] = "revert" /\ pc[t] = "endjob" /\ loc[t].ret = 0
            /\ loc[t].before \in {"inactive", "running", "paused"}
            /\ loc[t].queued = <<>>
        => LET b == loc[t].before
               a == Before
           IN  RevertEvents(t) =
                   CASE b = "inactive" /\ a = "running" -> <<"started">>
                     [] b = "inactive" /\ a = "paused" ->
                            <<"started", "suspended">>
                     [] b # "inactive" /\ a = "inactive" -> <<"stopped">>
                     [] b = "running" /\ a = "paused" -> <<"suspended">>
                     [] b = "paused" /\ a = "running" -> <<"resumed">>
                     [] OTHER -> <<>>

\* C32: a domain is removed from the registry only when it is inactive: no
\* step unregisters a domain whose hypervisor process is still running.
C32_RemovedOnlyInactive ==
    [][vm.registered /\ ~vm'.registered => ~vm'.active /\ ~vm'.procAlive]_vars

BlockJobPre(t) ==
    /\ pc[t] = "pre" /\ op[t] = "blockjobabort"
    /\ lock = t
    /\ \E supported \in BOOLEAN :
          IF ~IsActive
          THEN /\ loc' = Set(t, "err", "OperationInvalid")
               /\ Goto(t, "cleanup")
          ELSE IF ~supported
          THEN /\ loc' = Set(t, "err", "ConfigUnsupported")
               /\ Goto(t, "cleanup")
          ELSE /\ Goto(t, "begin")
               /\ UNCHANGED loc
    /\ UNCHANGED <<vm, job, lock, op, held>>

\* with the modify job: the disk is looked up and the cancel command sent
BlockJobHeld(t) ==
    /\ pc[t] = "held" /\ op[t] = "blockjobabort"
    /\ lock = t
    /\ \E found \in BOOLEAN :
          IF ~IsActive
          THEN /\ loc' = Set(t, "err", "OperationInvalid")
               /\ Goto(t, "endjob")
               /\ UNCHANGED <<vm, lock>>
          ELSE IF ~found
          THEN /\ loc' = Set(t, "err", "InvalidArg")
               /\ Goto(t, "endjob")
               /\ UNCHANGED <<vm, lock>>
          ELSE /\ vm' = Entered(vm)
               /\ lock' = NoThread
               /\ Goto(t, "bj_mon")
               /\ UNCHANGED loc
    /\ UNCHANGED <<job, op, held>>

\* qemuMonitorBlockJob(BLOCK_JOB_ABORT) is back; a successful cancel stops
\* any mirroring (disk->mirror = NULL). A binary without async block jobs:
\* the canceled events are made here. With them and without
\* VIR_DOMAIN_BLOCK_JOB_ABORT_ASYNC: the first BLOCK_JOB_INFO poll is sent
BlockJobMon(t) ==
    /\ pc[t] = "bj_mon"
    /\ lock = NoThread
    /\ \E rc \in Replies, async \in BOOLEAN, flagAsync \in BOOLEAN,
          mirror \in BOOLEAN :
          IF rc < 0
          THEN /\ vm' = Exited(vm, t)
               /\ lock' = t
               /\ loc' = Set(t, "err", "OperationFailed")
               /\ Goto(t, "endjob")
          ELSE IF ~async
          THEN /\ vm' = IF mirror THEN AssignDef(Exited(vm, t))
                        ELSE Exited(vm, t)
               /\ lock' = t
               /\ loc' = [loc EXCEPT ![t].ret = 0,
                             ![t].event = << <<"block_job", "canceled">>,
                                             <<"block_job_2", "canceled">> >>]
               /\ Goto(t, "endjob")
          ELSE IF flagAsync
          THEN /\ vm' = IF mirror THEN AssignDef(Exited(vm, t))
                        ELSE Exited(vm, t)
               /\ lock' = t
               /\ loc' = Set(t, "ret", 0)
               /\ Goto(t, "endjob")
          ELSE /\ vm' = IF mirror THEN AssignDef(vm) ELSE vm
               /\ loc' = Set(t, "ret", 0)
               /\ Goto(t, "bj_poll_mon")
               /\ UNCHANGED lock
    /\ UNCHANGED <<job, op, held>>

\* a variant in which the job is given up for the time of the sleep
SleptWithoutJob(j) == [j EXCEPT !.active = "none", !.owner = NoThread]

\* virObjectUnlock(vm); nanosleep(&ts, NULL); virObjectLock(vm): the job
\* is the caller's for the whole wait
Slept(j) == j

\* the poll is back (1 while the block job is there): if (ret <= 0) break;
\* otherwise the object is unlocked for 50ms
BlockJobPollMon(t) ==
    /\ pc[t] = "bj_poll_mon"
    /\ lock = NoThread
    /\ \E rc \in Replies \cup (IF vm.procAlive THEN {1} ELSE {}) :
          /\ vm' = Exited(vm, t)
          /\ loc' = Set(t, "ret", rc)
          /\ IF rc <= 0
             THEN /\ lock' = t
                  /\ Goto(t, "endjob")
                  /\ UNCHANGED job
             ELSE /\ Goto(t, "bj_sleep")
                  /\ job' = Slept(job)
                  /\ UNCHANGED lock
    /\ UNCHANGED <<op, held>>

\* the sleep is over and the object locked again: a domain that is gone
\* ends the wait, otherwise the next poll is sent
BlockJobSleep(t) ==
    /\ pc[t] = "bj_sleep"
    /\ lock = NoThread
    /\ IF ~IsActive
       THEN /\ lock' = t
            /\ loc' = [loc EXCEPT ![t].ret = -1,
                                  ![t].err = "OperationInvalid"]
            /\ Goto(t, "endjob")
            /\ UNCHANGED vm
       ELSE /\ vm' = Entered(vm)
            /\ Goto(t, "bj_poll_mon")
            /\ UNCHANGED <<lock, loc>>
    /\ UNCHANGED <<job, op, held>>

\* ------------------------------- qemuDomainGetInfo, qemuDomainGetXMLDesc
\* a variant in which the query job is begun whatever the slot holds
JobAllowedAlways(kind) == TRUE

\* qemuDomainJobAllowed(priv, QEMU_JOB_QUERY): begin_job would not wait
JobAllowed(kind) == CanBeginJob(kind)

\* up to the refresh of the balloon value: it is asked of the monitor only
\* for an active domain with a balloon device that sends no events, and
\* only when the query job is allowed; otherwise the answer is made from
\* what the definition holds (history: cached)
QueryPre(t) ==
    /\ pc[t] = "pre" /\ op[t] \in {"getinfo", "getxmldesc"}
    /\ lock = t
    /\ \E cpuTime \in BOOLEAN, poll \in BOOLEAN :
          IF op[t] = "getinfo" /\ IsActive /\ ~cpuTime
          THEN /\ loc' = Set(t, "err", "OperationFailed")
               /\ Goto(t, "cleanup")
          ELSE IF ~IsActive \/ ~poll
          THEN /\ loc' = Set(t, "ret", 0)
               /\ Goto(t, "cleanup")
          ELSE IF JobAllowed("query")
          THEN /\ Goto(t, "begin")
               /\ UNCHANGED loc
          ELSE /\ loc' = [loc EXCEPT ![t].ret = 0, ![t].cached = TRUE]
               /\ Goto(t, "cleanup")
    /\ UNCHANGED <<vm, job, lock, op, held>>

\* with the query job: an inactive domain is not asked (GetInfo: err = 0;
\* GetXMLDesc: OperationInvalid, goto endjob, and the XML is formatted all
\* the same); the job is ended at once
QueryHeld(t) ==
    /\ pc[t] = "held" /\ op[t] \in {"getinfo", "getxmldesc"}
    /\ lock = t
    /\ IF IsActive
       THEN /\ vm' = Entered(vm)
            /\ lock' = NoThread
            /\ Goto(t, "qry_mon")
            /\ UNCHANGED <<job, held, loc>>
       ELSE /\ job' = JobEnded
            /\ held' = [held EXCEPT !.sync = @ \ {t},
                           !.gone = IF vm.refs > 1 THEN @ ELSE @ \cup {t}]
            /\ vm' = Unref(vm)
            /\ IF vm.refs > 1
               THEN /\ loc' = [loc EXCEPT ![t].ret = 0,
                                  ![t].err = IF op[t] = "getinfo" THEN @
                                             ELSE "OperationInvalid"]
                    /\ UNCHANGED lock
               ELSE /\ loc' = Set(t, "vmp", FALSE)
                    /\ lock' = NoThread
            /\ Goto(t, "cleanup")
    /\ UNCHANGED op

\* qemuMonitorGetBalloonInfo is back (1: a value; 0: no balloon support)
\* and the job is ended; GetXMLDesc fails on err < 0 and stores the value
\* in the definition, GetInfo answers in every case
QueryMon(t) ==
    /\ pc[t] = "qry_mon"
    /\ lock = NoThread
    /\ job' = JobEnded
    /\ held' = [held EXCEPT !.sync = @ \ {t},
                   !.gone = IF vm.refs > 2 THEN @ ELSE @ \cup {t}]
    /\ \E err \in Replies \cup (IF vm.procAlive THEN {1} ELSE {}) :
          IF vm.refs > 2
          THEN /\ lock' = t
               /\ vm' = LET v == Unref(Exited(vm, t))
                        IN IF op[t] = "getxmldesc" /\ err > 0
                           THEN AssignDef(v) ELSE v
               /\ loc' = IF op[t] = "getxmldesc" /\ err < 0
                         THEN Set(t, "err", "OperationFailed")
                         ELSE Set(t, "ret", 0)
          ELSE /\ vm' = Unref(Exited(vm, t))
               /\ loc' = Set(t, "vmp", FALSE)
               /\ UNCHANGED lock
    /\ Goto(t, "cleanup")
    /\ UNCHANGED op

\* ----------------------------------------------- qemuDomainCreateWithFlags
\* a variant in which the start does not look at the state of the domain
AlreadyRunningNever(v) == FALSE

\* if (virDomainObjIsActive(vm)) { OperationInvalid; goto endjob; }
AlreadyRunning(v) == v.active

\* with the modify job: an active domain is refused; otherwise
\* qemuDomainObjStart restores the managed save image, if there is a usable
\* one and VIR_DOMAIN_START_FORCE_BOOT is not given, or boots the domain
\* (image: what the managed save file is found to be)
StartHeld(t) ==
    /\ pc[t] = "held" /\ op[t] = "start"
    /\ lock = t
    /\ IF AlreadyRunning(vm)
       THEN /\ loc' = Set(t, "err", "OperationInvalid")
            /\ Goto(t, "endjob")
            /\ UNCHANGED <<vm, lock>>
       ELSE \E path \in BOOLEAN, force_boot \in BOOLEAN,
               start_paused \in BOOLEAN, unlinked \in BOOLEAN,
               started \in BOOLEAN, was_running \in BOOLEAN,
               image \in {"none", "ok", "incomplete", "bad"} :
            LET st == IF start_paused THEN "paused" ELSE "running"
                restore == image \in {"ok", "bad"} /\ ~force_boot
                v == IF image # "none" /\ force_boot
                     THEN [vm EXCEPT !.hasManagedSave = FALSE]
                     ELSE IF restore THEN AssignDef(vm) ELSE vm
                r == ProcessStarted(v, "paused", "restored")
            IN  IF \/ ~path
                   \/ image # "none" /\ force_boot /\ ~unlinked
                   \/ image = "bad" /\ ~force_boot
                THEN /\ loc' = Set(t, "err", "OperationFailed")
                     /\ Goto(t, "endjob")
                     /\ UNCHANGED <<vm, lock>>
                ELSE IF ~started
                THEN /\ vm' = v
                     /\ loc' = Set(t, "err", "OperationFailed")
                     /\ Goto(t, "endjob")
                     /\ UNCHANGED lock
                ELSE IF ~restore
                THEN /\ vm' = ProcessStarted(v, st, "booted")
                     /\ loc' = [loc EXCEPT ![t].ret = 0,
                                   ![t].event = StartedEvents("create", st)]
                     /\ Goto(t, "endjob")
                     /\ UNCHANGED lock
                ELSE IF was_running /\ ~start_paused
                THEN /\ vm' = Entered(r)
                     /\ lock' = NoThread
                     /\ loc' = Set(t, "event", << <<"started", "restored">> >>)
                     /\ Goto(t, "start_mon")
                ELSE /\ vm' = [r EXCEPT !.hasManagedSave = @ /\ ~unlinked]
                     /\ loc' = [loc EXCEPT ![t].ret = 0,
                                   ![t].event =
                                      << <<"started", "restored">>,
                                         <<"suspended",
                                           IF start_paused THEN "paused"
                                           ELSE "restored">> >>]
                     /\ Goto(t, "endjob")
                     /\ UNCHANGED lock
    /\ UNCHANGED <<job, op, held>>

\* qemuDomainSaveImageStartVM: qemuProcessStartCPUs(RUNNING_RESTORED) is
\* back, virDomainSaveStatus follows; after a restore that returned 0
\* qemuDomainObjStart unlinks the image
StartRestoreMon(t) ==
    /\ pc[t] = "start_mon"
    /\ lock = NoThread
    /\ lock' = t
    /\ \E rc \in Replies, io \in IoResults, unlinked \in BOOLEAN :
          IF rc = 0
          THEN /\ vm' = [StateSet(Exited(vm, t), "running", "restored")
                           EXCEPT !.hasManagedSave =
                                     @ /\ ~(io = 0 /\ unlinked)]
               /\ loc' = Set(t, "ret", io)
          ELSE /\ vm' = Exited(vm, t)
               /\ loc' = Set(t, "err", "OperationFailed")
    /\ Goto(t, "endjob")
    /\ UNCHANGED <<job, op, held>>

\* ------------------------------------------------- further entry points
\* the entry points below run against each other and against the death of
\* the process in a specification of their own
MoreOps ==
    {"snapshot_internal", "blockjobabort", "getinfo", "getxmldesc", "start"}

\* a client calls one of them: qemuDomObjFromDomain
CallMore(t) ==
    /\ pc[t] = "idle"
    /\ \A u \in Threads : u < t => pc[u] # "idle"
    /\ \E o \in MoreOps : op' = [op EXCEPT ![t] = o]
    /\ IF vm.registered
       THEN /\ lock = NoThread
            /\ lock' = t
            /\ loc' = Set(t, "vmp", TRUE)
            /\ Goto(t, "acl")
       ELSE /\ loc' = Set(t, "err", "NotFound")
            /\ Goto(t, "done")
            /\ UNCHANGED lock
    /\ UNCHANGED <<vm, job, held>>

StepMore(t) ==
    \/ CallMore(t) /\ Kept(t)
    \/ Acl(t) /\ Kept(t)
    \/ BeginJob(t) /\ Kept(t)
    \/ WaitJobAcquire(t) /\ Kept(t)
    \/ WaitJobTimeout(t) /\ Kept(t)
    \/ Return(t) /\ Kept(t)
    \/ SnapshotCreatePre(t) /\ Kept(t)
    \/ SnapshotInternalHeld(t) /\ Kept(t)
    \/ SnapshotInternalStopMon(t) /\ Kept(t)
    \/ SnapshotInternalMon(t) /\ Kept(t)
    \/ SnapshotInternalCleanup(t) /\ Kept(t)
    \/ SnapshotInternalResumeMon(t) /\ Kept(t)
    \/ SnapshotInternalEndjob(t) /\ Kept(t)
    \/ SnapshotCreateTail(t) /\ Kept(t)
    \/ EndJob(t) /\ Kept(t)
    \/ Cleanup(t) /\ Kept(t)
    \/ EventQueue(t) /\ Kept(t)
    \/ BlockJobPre(t) /\ Kept(t)
    \/ BlockJobHeld(t) /\ Kept(t)
    \/ BlockJobMon(t) /\ Kept(t)
    \/ BlockJobPollMon(t) /\ Kept(t)
    \/ BlockJobSleep(t) /\ Kept(t)
    \/ QueryPre(t) /\ Kept(t)
    \/ QueryHeld(t) /\ Kept(t)
    \/ QueryMon(t) /\ Kept(t)
    \/ StartHeld(t) /\ Kept(t)
    \/ StartRestoreMon(t) /\ Kept(t)

NextMore ==
    \/ \E t \in Threads : StepMore(t)
    \/ ProcessDies /\ Kept(NoThread)
    \/ MonitorEOF /\ Kept(NoThread)

SpecMore == Init /\ [][NextMore]_vars

\* C34: when an internal snapshot of an active domain has paused the
\* running guest and created the snapshot, and then fails to resume the
\* CPUs, the operation reports failure.
C34_ResumeFailureReported ==
    \A t \in Threads :
        op[t] = "snapshot_internal" /\ pc[t] = "snap_tail"
            /\ loc[t].resume /\ loc[t].err = "OperationFailed"
        => loc[t].ret < 0

\* ------------------------------------------ destroy against a job holder
\* qemuDomainDestroyFlags, qemuDomainSuspend and qemuDomainOpenGraphics; a
\* wait for the slot runs out of time only while the process is alive
DestroyOps == {"destroy", "suspend", "opengraphics"}

StepDestroy(t) ==
    \/ Call(t) /\ op'[t] \in DestroyOps /\ Kept(t)
    \/ Acl(t) /\ Kept(t)
    \/ BeginJob(t) /\ Kept(t)
    \/ WaitJobAcquire(t) /\ Kept(t)
    \/ WaitJobTimeout(t) /\ vm.procAlive /\ Kept(t)
    \/ EndJob(t) /\ Kept(t)
    \/ Cleanup(t) /\ Kept(t)
    \/ EventQueue(t) /\ Kept(t)
    \/ Return(t) /\ Kept(t)
    \/ SuspendPre(t) /\ Kept(t)
    \/ SuspendHeld(t) /\ Kept(t)
    \/ SuspendMon(t) /\ Kept(t)
    \/ DestroyKill(t) /\ Kept(t)
    \/ DestroyKilling(t) /\ Kept(t)
    \/ DestroyHeld(t) /\ Kept(t)
    \/ OpenGraphicsPre(t) /\ Kept(t)
    \/ OpenGraphicsHeld(t) /\ Kept(t)
    \/ OpenGraphicsMon(t) /\ Kept(t)

NextDestroy ==
    \/ \E t \in Threads : StepDestroy(t)
    \/ ProcessDies /\ Kept(NoThread)
    \/ MonitorEOF /\ Kept(NoThread)

\* a thread inside an entry point goes on: it gets the object lock when it
\* asks for it, and a command sent to a dead process is answered (the
\* channel is closed); a live process may never answer
Proceeds(t) ==
    /\ pc[t] \notin {"idle", "gone"}
    /\ pc[t] \in GuardPcs => ~vm.procAlive
    /\ StepDestroy(t)

SpecDestroy ==
    /\ Init
    /\ [][NextDestroy]_vars
    /\ \A t \in Threads : SF_vars(Proceeds(t))

C36_MarkerOnlyDuringDestroy ==
    (\A t \in Threads :
        ~(op[t] \in {"destroy", "panic"}
             /\ pc[t] \notin {"idle", "done", "gone"}))
    => ~vm.beingDestroyed

\* the positions of a synchronous block-job cancel that waits for the block
\* job to go away: inside a poll, and asleep with the object unlocked
PollPcs == {"bj_poll_mon", "bj_sleep"}

\* C37: while a synchronous block-job cancel polls for completion the
\* caller keeps the modify job for the whole wait, although it releases the
\* object lock between the polls: no other thread acquires a sync job
\* until the wait ends.
C37_JobKeptWhilePolling ==
    /\ [](\A t \in Threads :
             op[t] = "blockjobabort" /\ pc[t] \in PollPcs
             => job.active = "modify" /\ job.owner = t /\ t \in held.sync)
    /\ [][\A t \in Threads, u \in Threads :
             op[t] = "blockjobabort" /\ pc[t] \in PollPcs /\ u # t
             => ~(u \notin held.sync /\ u \in held'.sync)]_vars

\* the canceller sleeps with the object unlocked while another thread waits
\* for the slot
C37_Witness ==
    \E t \in Threads, u \in Threads :
        /\ op[t] = "blockjobabort" /\ pc[t] = "bj_sleep" /\ lock = NoThread
        /\ job.owner = t
        /\ u # t /\ pc[u] = "wait"

\* C38: qemuDomainGetInfo and qemuDomainGetXMLDesc never wait for a job:
\* they begin a query job only when one can be acquired at once, and
\* otherwise answer from the balloon value the definition holds.
C38_QueriesNeverWait ==
    /\ [](\A t \in Threads :
             op[t] \in {"getinfo", "getxmldesc"} => pc[t] # "wait")
    /\ [][\A t \in Threads :
             op[t] \in {"getinfo", "getxmldesc"} /\ pc[t] = "pre"
                 /\ pc'[t] # "pre" /\ ~CanBeginJob("query")
             => pc'[t] = "cleanup" /\ vm' = vm /\ job' = job
                   /\ (loc'[t].err = "none" => loc'[t].ret = 0)]_vars

\* a query has answered from the definition while another thread owns the
\* job inside a channel guard
C38_Witness ==
    \E t \in Threads, u \in Threads :
        /\ op[t] \in {"getinfo", "getxmldesc"} /\ pc[t] = "cleanup"
        /\ loc[t].cached /\ loc[t].ret = 0 /\ t \notin held.sync
        /\ u # t /\ job.owner = u /\ pc[u] \in GuardPcs

\* C39: when a core dump without the crash flag returns for a domain that
\* was running when the dump started and is still active, the dump has
\* issued a resume of the guest CPUs, whether it succeeded or failed: the
\* endjob label is never left for the end of the async job, skipping the
\* resume, while resume is set and the domain is active.
C39_DumpResumes ==
    [][\A t \in Threads :
          op[t] = "dump" /\ pc[t] = "dump_endjob" /\ pc'[t] = "aendjob"
          => ~(loc[t].resume /\ IsActive)]_vars

\* C40: a start request on a domain that is active once the modify job has
\* been acquired fails with OperationInvalid, starts no second process and
\* emits no event: the step it takes with the job leaves the domain as it
\* is and goes to the endjob label, and from there to its return it keeps
\* the failure and has no event to queue.
C40_StartOnActiveRefused ==
    /\ [][\A t \in Threads :
             op[t] = "start" /\ pc[t] = "held" /\ IsActive /\ pc'[t] # "held"
             => /\ vm' = vm
                /\ pc'[t] = "endjob"
                /\ loc'[t].err = "OperationInvalid"]_vars
    /\ [](\A t \in Threads :
             op[t] = "start" /\ loc[t].err = "OperationInvalid"
             => /\ loc[t].ret = -1 /\ loc[t].event = <<>>
                /\ pc[t] \in {"endjob", "cleanup", "done"})

\* of two starts of the same inactive domain one has started it and the
\* other, having waited for the job, has been refused
C40_Witness ==
    \E t \in Threads, u \in Threads :
        /\ op[t] = "start" /\ pc[t] = "cleanup"
        /\ loc[t].err = "OperationInvalid" /\ loc[t].ret = -1
        /\ u # t /\ op[u] = "start" /\ loc[u].ret = 0
        /\ vm.active /\ vm.reason = "booted"
====
